---- MODULE Spec2Model ----
(***************************************************************************)
(* The network map of the product-delivery demo (frontend/src/d3/map.js):  *)
(* the world state the map keeps, the drawn elements of its four keyed     *)
(* layers (node groups, labels, edge lines, flow particles), the hover and *)
(* selection state with the tooltip and the details panel, and one action  *)
(* per entry point or event handler; and, of the page around the map       *)
(* (frontend/src/main.js, api.js, chat.js): the resize handlers, the       *)
(* WebSocket client and the chat interface.                                *)
(*                                                                         *)
(* Conventions.  A JavaScript null/undefined object is Null.  An optional  *)
(* number is a set: {} when the field is missing, {n} when it is n.  The   *)
(* node array is a function from the ids it holds to the node objects (ids *)
(* are unique in a snapshot) and is iterated in ascending id order.  A     *)
(* node's location is an index into a table of geographic points; index 0  *)
(* (OutOfFrame) is a point the projection maps to null.  A node's state is *)
(* the one number its type is sized by (production_rate, orders_placed).   *)
(* The simulation time, undefined until the first update, starts at 0.     *)
(* A snapshot is a record; a field the message does not carry is not in    *)
(* its domain.                                                             *)
(* A rational number is a pair <<numerator, denominator>>, denominator > 0.*)
(***************************************************************************)
EXTENDS Integers, Sequences, FiniteSets, TLC

VARIABLES
    nodes,          \* this.nodes
    edges,          \* this.edges
    isRunning,      \* this.isRunning
    currentTime,    \* this.currentTime
    width,          \* this.width  (the projection is translated to width/2)
    height,         \* this.height (the projection is translated to height/2)
    hoveredNode,    \* this.hoveredNode: Null or the node object last hovered
    selectedNode,   \* this.selectedNode: Null or the node object last clicked
    tooltip,        \* the #tooltip element: Null or [content |-> node shown]
    panel,          \* the #node-details element: [visible, content]
    nodeGroups,     \* drawn g.node-group elements, by key (node id)
    labels,         \* drawn text elements, by key (node id)
    edgeLines,      \* drawn line elements, by key (edge_type, from, to)
    flows,          \* drawn circle.flow elements, by key (order_id)
    view,           \* the transform of the main group this.g (pan and zoom)
    overlay,        \* the boundary overlay: [usStates, loading, paths]
    sizer,          \* the resize handlers: [isResizing, resizeTimeout, container]
    api,            \* the WebSocket client: [ws, reconnectAttempts, sockets,
                    \*                        timers, connects, opened]
    chat,           \* the chat interface: [messages, disabled, request,
                    \*                      welcomed]
    last,           \* what the specification records of the last operation
    observed,       \* which facts of the last operation are recorded in last
    probe           \* the last evaluation of the progress function alone

vars == <<nodes, edges, isRunning, currentTime, width, height, hoveredNode,
          selectedNode, tooltip, panel, nodeGroups, labels, edgeLines, flows,
          view, overlay, sizer, api, chat, last, observed, probe>>

worldVars == <<nodes, edges, isRunning, currentTime>>
sizeVars == <<width, height>>
uiVars == <<hoveredNode, selectedNode, tooltip, panel>>
domVars == <<nodeGroups, labels, edgeLines, flows>>
pageVars == <<overlay, sizer, api, chat>>

\* -------------------------------------------------------------- bounds
MaxNodes == 2
MaxLoc == 2
MaxOrders == 2
MaxTime == 11
MaxStart == 1
MaxDuration == 2
MaxValue == 2
MaxSockets == 2
MaxMessages == 5

\* ----------------------------------------------------- program constants
DefaultDuration == 10
maxReconnectAttempts == 10

\* ------------------------------------------------------------- values
Null == [null |-> TRUE]
OutOfFrame == 0

NodeIds == 1..MaxNodes
Orders == 1..MaxOrders

Min(S) == CHOOSE m \in S : \A x \in S : m <= x

\* x || d for an optional number: a missing x and the number 0 are falsy.
JsOrNum(x, d) == IF x = {} \/ x = {0} THEN d ELSE CHOOSE n \in x : TRUE

\* A reading of a snapshot that keeps the stored node array when the
\* snapshot has none.
JsFieldKeeping(s, f, d) ==
    IF f \in DOMAIN s THEN s[f] ELSE IF f = "nodes" THEN nodes ELSE d

\* state.<f> || d: the field of the snapshot, d when it is missing.
JsField(s, f, d) == IF f \in DOMAIN s THEN s[f] ELSE d

\* ---------------------------------------------------------- rationals
RLeq(a, b) == a[1] * b[2] <= b[1] * a[2]
REq(a, b) == a[1] * b[2] = b[1] * a[2]
RMin(a, b) == IF RLeq(a, b) THEN a ELSE b
RMax(a, b) == IF RLeq(a, b) THEN b ELSE a

\* ---------------------------------------------------------- projection
\* The unscaled projected point of each table location (d3.geoAlbersUsa at
\* scale 1000, before the translation to the centre of the surface).
RawXY(loc) == <<4 * loc - 6, 2 * loc - 3>>

\* this.projection([lon, lat]): <<>> stands for null (outside the frame).
Projection(loc, w, h) ==
    IF loc = OutOfFrame THEN <<>>
    ELSE <<RawXY(loc)[1] + w \div 2, RawXY(loc)[2] + h \div 2>>

\* Array.find by id: the node object, or Null.
FindNode(ns, id) == IF id \in DOMAIN ns THEN ns[id] ELSE Null

GetNodeProjectionMissingElsewhere(ns, id, w, h) ==
    LET node == FindNode(ns, id)
    IN  IF node = Null THEN <<1, 1>>
        ELSE LET projected == Projection(node.location, w, h)
             IN  IF projected = <<>> THEN <<0, 0>> ELSE projected

\* getNodeProjection(nodeId): [0, 0] for an id not found and for a node the
\* projection maps to null.
GetNodeProjection(ns, id, w, h) ==
    LET node == FindNode(ns, id)
    IN  IF node = Null THEN <<0, 0>>
        ELSE LET projected == Projection(node.location, w, h)
             IN  IF projected = <<>> THEN <<0, 0>> ELSE projected

\* ------------------------------------------------------------ progress
EffDurationNullish(duration) ==
    IF duration = {} THEN DefaultDuration ELSE CHOOSE n \in duration : TRUE

\* d.delivery.duration || 10
EffDuration(duration) == JsOrNum(duration, DefaultDuration)

ProgressUnclamped(t, start_time, duration) ==
    LET deliveryStartTime == JsOrNum(start_time, 0)
        deliveryDuration == EffDuration(duration)
    IN  IF deliveryDuration > 0
        THEN <<t - deliveryStartTime, deliveryDuration>>
        ELSE <<0, 1>>

\* The progress of one delivery at simulation time t.
Progress(t, start_time, duration) ==
    LET deliveryStartTime == JsOrNum(start_time, 0)
        deliveryDuration == EffDuration(duration)
    IN  IF deliveryDuration > 0
        THEN RMax(<<0, 1>>,
                  RMin(<<1, 1>>, <<t - deliveryStartTime, deliveryDuration>>))
        ELSE <<0, 1>>

\* ------------------------------------------------------- keyed data join
\* selection.data(data, key): the keys that get a new element (enter) and the
\* keys whose element leaves (exit); a key in both keeps its element.
EnterKeysAll(els, data) == DOMAIN data

EnterKeys(els, data) == DOMAIN data \ DOMAIN els

ExitKeysNone(els, data) == {}

ExitKeys(els, data) == DOMAIN els \ DOMAIN data

\* append(): a new element is an object distinct from every attached one.
RECURSIVE Alloc(_, _)
Alloc(keys, used) ==
    IF keys = {} THEN <<>>
    ELSE LET k == CHOOSE x \in keys : TRUE
             e == Min({i \in 1..(Cardinality(used) + 1) : i \notin used})
         IN  (k :> e) @@ Alloc(keys \ {k}, used \cup {e})

ElsOf(els) == {els[k].el : k \in DOMAIN els}

Ops(layer, keys) == {<<layer, k>> : k \in keys}

\* ---------------------------------------------------------- edge layer
EdgeKey(d) == <<d.edge_type, d.from, d.to>>

EdgeStroke(d) ==
    IF d.edge_type = "structural" THEN "rgba(100, 100, 100, 0.2)"
    ELSE IF d.edge_type = "order_placement" THEN "rgba(59, 130, 246, 0.7)"
    ELSE "rgba(239, 68, 68, 0.7)"

EdgeStrokeWidthByCount(d) ==
    IF d.edge_type = "structural" THEN 1 ELSE 1 + d.active_orders

EdgeStrokeWidth(d) ==
    IF d.edge_type = "structural" THEN 1
    ELSE IF d.active_orders > 0 THEN 2 ELSE 1

EdgeStrokeOpacity(d) == IF d.active_orders > 0 THEN <<6, 10>> ELSE <<2, 10>>

ActiveEdgesAnyCount(es) == {d \in es : d.edge_type = "delivery"}

\* The edges that show flows.
ActiveEdges(es) == {d \in es : d.edge_type = "delivery" /\ d.active_orders > 0}

DeliveryParticlesByPlace(es) ==
    LET ps == UNION {{[edge |-> e, delivery |-> e.deliveries[i],
                       deliveryIndex |-> i - 1,
                       key |-> i]
                      : i \in 1..Len(e.deliveries)} : e \in ActiveEdges(es)}
    IN  [k \in {p.key : p \in ps} |-> CHOOSE p \in ps : p.key = k]

\* One particle datum per delivery of an active edge, keyed by order_id.
DeliveryParticles(es) ==
    LET ps == UNION {{[edge |-> e, delivery |-> e.deliveries[i],
                       deliveryIndex |-> i - 1,
                       key |-> e.deliveries[i].order_id]
                      : i \in 1..Len(e.deliveries)} : e \in ActiveEdges(es)}
    IN  [k \in {p.key : p \in ps} |-> CHOOSE p \in ps : p.key = k]

LerpFromSource(a, b, p) == <<<<a[1], 1>>, <<a[2], 1>>>>

\* a + p * (b - a) on both coordinates, for a rational p: the base position.
Lerp(a, b, p) ==
    <<<<a[1] * p[2] + p[1] * (b[1] - a[1]), p[2]>>,
      <<a[2] * p[2] + p[1] * (b[2] - a[2]), p[2]>>>>

\* The position given to one particle: Null when the pass skips it (an
\* endpoint whose x is falsy).  The drawn point is base + offsetAmount * u,
\* u the unit vector along perp (the edge direction turned by 90 degrees).
FlowPosition(d, ns, w, h, t) ==
    LET p1 == GetNodeProjection(ns, d.edge.from, w, h)
        p2 == GetNodeProjection(ns, d.edge.to, w, h)
        progress == Progress(t, d.delivery.start_time, d.delivery.duration)
    IN  IF p1[1] = 0 \/ p2[1] = 0 THEN Null
        ELSE [from |-> p1, to |-> p2,
              progress |-> progress,
              base |-> Lerp(p1, p2, progress),
              offsetAmount |-> (d.deliveryIndex % 3) - 1,
              perp |-> <<0 - (p2[2] - p1[2]), p2[1] - p1[1]>>]

RenderOrderFlows(es, ns, w, h, t, oldFlows) ==
    LET data == DeliveryParticles(es)
        enter == EnterKeys(oldFlows, data)
        exit == ExitKeys(oldFlows, data)
        fresh == Alloc(enter, ElsOf(oldFlows))
        joined == [k \in DOMAIN data |->
                     IF k \in enter
                     THEN [el |-> fresh[k], d |-> data[k], pos |-> Null]
                     ELSE [oldFlows[k] EXCEPT !.d = data[k]]]
        placed == [k \in DOMAIN data |->
                     LET pos == FlowPosition(data[k], ns, w, h, t)
                     IN  IF pos = Null THEN joined[k]
                         ELSE [joined[k] EXCEPT !.pos = pos]]
        kept == [k \in (DOMAIN oldFlows \ DOMAIN data) \ exit |-> oldFlows[k]]
    IN  [flows |-> placed @@ kept,
         created |-> Ops("flow", enter),
         removed |-> Ops("flow", exit)]

RenderEdges(es, ns, w, h, t, oldLines, oldFlows) ==
    LET data == [k \in {EdgeKey(d) : d \in es} |->
                   CHOOSE d \in es : EdgeKey(d) = k]
        enter == EnterKeys(oldLines, data)
        exit == ExitKeys(oldLines, data)
        fresh == Alloc(enter, ElsOf(oldLines))
        drawn == [k \in DOMAIN data |->
                    [el |-> IF k \in enter THEN fresh[k] ELSE oldLines[k].el,
                     d |-> data[k],
                     p1 |-> GetNodeProjection(ns, data[k].from, w, h),
                     p2 |-> GetNodeProjection(ns, data[k].to, w, h),
                     stroke |-> EdgeStroke(data[k]),
                     stroke_width |-> EdgeStrokeWidth(data[k]),
                     stroke_opacity |-> EdgeStrokeOpacity(data[k])]]
        kept == [k \in (DOMAIN oldLines \ DOMAIN data) \ exit |-> oldLines[k]]
        rf == RenderOrderFlows(es, ns, w, h, t, oldFlows)
    IN  [edgeLines |-> drawn @@ kept,
         flows |-> rf.flows,
         created |-> Ops("edge", enter) \cup rf.created,
         removed |-> Ops("edge", exit) \cup rf.removed]

\* ---------------------------------------------------------- node layer
RECURSIVE SumState(_, _)
\* reduce((sum, n) => sum + (n.state.<field> || 0), 0) over the nodes of a type
SumState(ns, ids) ==
    IF ids = {} THEN 0
    ELSE LET i == CHOOSE x \in ids : TRUE
         IN  ns[i].state + SumState(ns, ids \ {i})

TypeTotal(ns, type) == SumState(ns, {i \in DOMAIN ns : ns[i].type = type})

NodeRadiusAbsolute(d, ns) ==
    IF d.type = "manufacturing_center"
    THEN IF TypeTotal(ns, "manufacturing_center") > 0
         THEN <<4 + d.state, 1>> ELSE <<4 * 100 + 33 * 8, 100>>
    ELSE IF TypeTotal(ns, "distributor") > 0
         THEN <<3 + d.state, 1>> ELSE <<3 * 1000 + 125 * 6, 1000>>

NodeRadiusUnguarded(d, ns) ==
    IF d.type = "manufacturing_center"
    THEN <<4 * TypeTotal(ns, "manufacturing_center") + d.state * 8,
           TypeTotal(ns, "manufacturing_center")>>
    ELSE <<3 * TypeTotal(ns, "distributor") + d.state * 6,
           TypeTotal(ns, "distributor")>>

\* The r attribute of a node's circle, as a rational.
NodeRadius(d, ns) ==
    IF d.type = "manufacturing_center"
    THEN LET totalProduction == TypeTotal(ns, "manufacturing_center")
         IN  IF totalProduction > 0
             THEN <<4 * totalProduction + d.state * 8, totalProduction>>
             ELSE <<4 * 100 + 33 * 8, 100>>
    ELSE LET totalOrders ==
                 SumState(ns, {i \in DOMAIN ns : ns[i].type = "distributor"})
         IN  IF totalOrders > 0
             THEN <<3 * totalOrders + d.state * 6, totalOrders>>
             ELSE <<3 * 1000 + 125 * 6, 1000>>

NodeFill(d) ==
    IF d.type = "manufacturing_center" THEN "rgba(16, 185, 129, 0.7)"
    ELSE "rgba(139, 92, 246, 0.7)"

IsSelectedAny(d, sel) == sel # Null

\* A test of the selection that compares the node objects themselves.
IsSelectedByObject(d, sel) == sel # Null /\ d = sel

\* this.selectedNode && d.id === this.selectedNode.id
IsSelected(d, sel) == sel # Null /\ d.id = sel.id

NodeStyle(d, ns, sel) ==
    [r |-> NodeRadius(d, ns),
     fill |-> NodeFill(d),
     stroke |-> IF IsSelected(d, sel) THEN "#fff" ELSE "none",
     stroke_width |-> IF IsSelected(d, sel) THEN 3 ELSE 0]

\* The nodes whose transform callback throws: destructuring a null projection.
Unprojectable(ns, w, h) ==
    {i \in DOMAIN ns : Projection(ns[i].location, w, h) = <<>>}

RenderLabels(ns, w, h, oldLabels) ==
    LET enter == EnterKeys(oldLabels, ns)
        exit == ExitKeys(oldLabels, ns)
        fresh == Alloc(enter, ElsOf(oldLabels))
        drawn == [k \in DOMAIN ns |->
                    [el |-> IF k \in enter THEN fresh[k] ELSE oldLabels[k].el,
                     d |-> ns[k],
                     xy |-> Projection(ns[k].location, w, h)]]
        kept == [k \in (DOMAIN oldLabels \ DOMAIN ns) \ exit |-> oldLabels[k]]
    IN  [labels |-> drawn @@ kept,
         created |-> Ops("label", enter),
         removed |-> Ops("label", exit)]

\* renderNodes(): the join and the appends come first; the transform callback
\* runs over the joined groups in data order and throws at the first node the
\* projection maps to null, which ends the pass (and its caller) there; only
\* a pass that gets through attaches the listeners, styles the circles,
\* removes the exit groups and renders the labels.
RenderNodes(ns, sel, w, h, oldGroups, oldLabels) ==
    LET enter == EnterKeys(oldGroups, ns)
        exit == ExitKeys(oldGroups, ns)
        fresh == Alloc(enter, ElsOf(oldGroups))
        joined == [k \in DOMAIN ns |->
                     IF k \in enter
                     THEN [el |-> fresh[k], d |-> ns[k], transform |-> <<>>,
                           listeners |-> FALSE, style |-> Null]
                     ELSE [oldGroups[k] EXCEPT !.d = ns[k]]]
        bad == Unprojectable(ns, w, h)
        threw == bad # {}
        moved == [k \in DOMAIN ns |->
                    IF threw /\ k >= Min(bad) THEN joined[k]
                    ELSE [joined[k] EXCEPT
                            !.transform = Projection(ns[k].location, w, h)]]
        styled == [k \in DOMAIN ns |->
                     [moved[k] EXCEPT !.listeners = TRUE,
                                      !.style = NodeStyle(ns[k], ns, sel)]]
        stale == DOMAIN oldGroups \ DOMAIN ns
        rl == RenderLabels(ns, w, h, oldLabels)
    IN  IF threw
        THEN [nodeGroups |-> moved @@ [k \in stale |-> oldGroups[k]],
              labels |-> oldLabels,
              created |-> Ops("node", enter),
              removed |-> {},
              threw |-> TRUE]
        ELSE [nodeGroups |-> styled @@ [k \in stale \ exit |-> oldGroups[k]],
              labels |-> rl.labels,
              created |-> Ops("node", enter) \cup rl.created,
              removed |-> Ops("node", exit) \cup rl.removed,
              threw |-> FALSE]

\* ------------------------------------------------- tooltip and details panel
\* updateTooltip(node): without a #tooltip element nothing happens.
UpdateTooltip(tip, node) == IF tip = Null THEN Null ELSE [content |-> node]

\* updateDetailsPanel(node): shows the panel and rewrites its content.
UpdateDetailsPanel(node) == [visible |-> TRUE, content |-> node]

HideDetailsPanel(pan) == [pan EXCEPT !.visible = FALSE]

\* ----------------------------------------------------------- operations
NodeId(ref) == IF ref = Null THEN 0 ELSE ref.id

\* The stages of update(state) in the order an update of the specification
\* would run them: the nodes first, then the lines and the particles.
UpdateStepsNodesFirst(threw, hov, sel) ==
    <<"nodes", "labels", "edges", "flows">>
    \o (IF hov THEN <<"tooltip">> ELSE <<>>)
    \o (IF sel THEN <<"panel">> ELSE <<>>)

\* The keys of the particles a join rebinds: the element stays, and the datum
\* it is given has another index or another edge than the one it had.
Rebound(oldFlows, newFlows) ==
    {k \in DOMAIN oldFlows \cap DOMAIN newFlows :
       /\ newFlows[k].el = oldFlows[k].el
       /\ \/ newFlows[k].d.deliveryIndex # oldFlows[k].d.deliveryIndex
          \/ EdgeKey(newFlows[k].d.edge) # EdgeKey(oldFlows[k].d.edge)}

\* renderEdges(): the lines, then renderOrderFlows().
RenderEdgesSteps == <<"edges", "flows">>

\* renderNodes(): the groups, then renderLabels() unless the groups threw.
RenderNodesSteps(threw) == IF threw THEN <<"nodes">> ELSE <<"nodes", "labels">>

\* The stages update(state) starts, in order: a stage starts when the one
\* before it has returned, and none starts after renderNodes() threw.  hov and
\* sel tell whether the hovered and the selected node were found by id.
UpdateSteps(threw, hov, sel) ==
    RenderEdgesSteps \o RenderNodesSteps(threw)
    \o (IF ~threw /\ hov THEN <<"tooltip">> ELSE <<>>)
    \o (IF ~threw /\ sel THEN <<"panel">> ELSE <<>>)

\* The record of an operation: which one it was, whether it was an update that
\* applied the very snapshot the update just before it applied, the elements
\* it created and removed (layer and key), whether it ended by throwing, and
\* the stages it started, in order, and the particles it rebound.
\* A specification records the facts named in observed and blanks the others.
Record(op, repeat, created, removed, threw, steps, rebound) ==
    [op |-> IF "op" \in observed THEN op ELSE "",
     input |-> Null,
     rebound |-> IF "rebound" \in observed THEN rebound ELSE {},
     steps |-> IF "steps" \in observed THEN steps ELSE <<>>,
     repeat |-> "repeat" \in observed /\ repeat,
     created |-> IF "created" \in observed THEN created ELSE {},
     removed |-> IF "removed" \in observed THEN removed ELSE {},
     threw |-> "threw" \in observed /\ threw]

\* What a specification that observes the input records of it.
Input(s) == IF "input" \in observed THEN s ELSE Null

\* update(state): store the world state, render edges (with flows) and nodes,
\* then refresh the tooltip and the panel from the node found by id.
Update(s) ==
    LET ns == JsField(s, "nodes", <<>>)
        es == JsField(s, "edges", {})
        running == JsField(s, "running", FALSE)
        time == JsField(s, "time", 0)
        re == RenderEdges(es, ns, width, height, time, edgeLines, flows)
        rn == RenderNodes(ns, selectedNode, width, height, nodeGroups, labels)
        hov == FindNode(ns, NodeId(hoveredNode))
        upd == FindNode(ns, NodeId(selectedNode))
    IN  /\ nodes' = ns
        /\ edges' = es
        /\ isRunning' = running
        /\ currentTime' = time
        /\ edgeLines' = re.edgeLines
        /\ flows' = re.flows
        /\ nodeGroups' = rn.nodeGroups
        /\ labels' = rn.labels
        /\ tooltip' = IF ~rn.threw /\ hoveredNode # Null /\ hov # Null
                      THEN UpdateTooltip(tooltip, hov) ELSE tooltip
        /\ panel' = IF ~rn.threw /\ selectedNode # Null /\ upd # Null
                    THEN UpdateDetailsPanel(upd) ELSE panel
        /\ last' = [Record("update",
                           last.op = "update" /\ nodes = ns /\ edges = es
                           /\ isRunning = running /\ currentTime = time,
                           re.created \cup rn.created,
                           re.removed \cup rn.removed, rn.threw,
                           UpdateSteps(rn.threw,
                                       hoveredNode # Null /\ hov # Null,
                                       selectedNode # Null /\ upd # Null),
                           Rebound(flows, re.flows))
                     EXCEPT !.input = Input(s)]
        /\ UNCHANGED <<width, height, hoveredNode, selectedNode, view, pageVars, observed,
                       probe>>

\* A selectNode that runs the whole rendering pass of an update.
SelectNodeRenderingEdges(node, op) ==
    LET re == RenderEdges(edges, nodes, width, height, currentTime, edgeLines,
                          flows)
        rn == RenderNodes(nodes, node, width, height, nodeGroups, labels)
    IN  /\ selectedNode' = node
        /\ edgeLines' = re.edgeLines
        /\ flows' = re.flows
        /\ nodeGroups' = rn.nodeGroups
        /\ labels' = rn.labels
        /\ panel' = IF rn.threw THEN panel
                    ELSE IF node # Null THEN UpdateDetailsPanel(node)
                    ELSE HideDetailsPanel(panel)
        /\ last' = Record(op, FALSE, re.created \cup rn.created,
                          re.removed \cup rn.removed, rn.threw,
                          RenderEdgesSteps \o RenderNodesSteps(rn.threw)
                          \o (IF rn.threw THEN <<>> ELSE <<"panel">>), {})
        /\ UNCHANGED <<worldVars, sizeVars, hoveredNode, tooltip, view,
                       pageVars, observed, probe>>

\* selectNode(node): store it, re-render the nodes, then show or hide the panel.
SelectNode(node, op) ==
    LET rn == RenderNodes(nodes, node, width, height, nodeGroups, labels)
    IN  /\ selectedNode' = node
        /\ nodeGroups' = rn.nodeGroups
        /\ labels' = rn.labels
        /\ panel' = IF rn.threw THEN panel
                    ELSE IF node # Null THEN UpdateDetailsPanel(node)
                    ELSE HideDetailsPanel(panel)
        /\ last' = Record(op, FALSE, rn.created, rn.removed, rn.threw,
                          RenderNodesSteps(rn.threw)
                          \o (IF rn.threw THEN <<>> ELSE <<"panel">>), {})
        /\ UNCHANGED <<worldVars, sizeVars, hoveredNode, tooltip, edgeLines,
                       flows, view, pageVars, observed, probe>>

\* click on a node group that has its listeners: the event stops there.
ClickNode(k) ==
    /\ k \in DOMAIN nodeGroups
    /\ nodeGroups[k].listeners
    /\ SelectNode(nodeGroups[k].d, "click")

\* click that reaches the svg: the background, or a group without listeners.
ClickBackground == SelectNode(Null, "background")

\* A pointer-leave that clears the hovered node and keeps the tooltip.
MouseLeaveKeepingTooltip(k) ==
    /\ k \in DOMAIN nodeGroups
    /\ nodeGroups[k].listeners
    /\ hoveredNode' = Null
    /\ last' = Record("mouseleave", FALSE, {}, {}, FALSE, <<"tooltip">>, {})
    /\ UNCHANGED <<worldVars, sizeVars, selectedNode, tooltip, panel, domVars,
                   view, pageVars, observed, probe>>

\* mouseenter on a node group: showTooltip(event, d).
MouseEnter(k) ==
    /\ k \in DOMAIN nodeGroups
    /\ nodeGroups[k].listeners
    /\ hoveredNode' = nodeGroups[k].d
    /\ tooltip' = [content |-> nodeGroups[k].d]
    /\ last' = Record("mouseenter", FALSE, {}, {}, FALSE, <<"tooltip">>, {})
    /\ UNCHANGED <<worldVars, sizeVars, selectedNode, panel, domVars, view,
                   pageVars, observed, probe>>

\* mouseleave on a node group: hideTooltip().
MouseLeave(k) ==
    /\ k \in DOMAIN nodeGroups
    /\ nodeGroups[k].listeners
    /\ hoveredNode' = Null
    /\ tooltip' = Null
    /\ last' = Record("mouseleave", FALSE, {}, {}, FALSE, <<"tooltip">>, {})
    /\ UNCHANGED <<worldVars, sizeVars, selectedNode, panel, domVars, view,
                   pageVars, observed, probe>>

\* A zoom handler that also clears the selection.
ZoomDeselecting(transform) ==
    /\ view' = transform
    /\ selectedNode' = Null
    /\ last' = Record("zoom", FALSE, {}, {}, FALSE, <<>>, {})
    /\ UNCHANGED <<worldVars, sizeVars, hoveredNode, tooltip, panel, domVars,
                   pageVars, observed, probe>>

\* The zoom handler: this.g.attr('transform', event.transform).
Zoom(transform) ==
    /\ view' = transform
    /\ last' = Record("zoom", FALSE, {}, {}, FALSE, <<>>, {})
    /\ UNCHANGED <<worldVars, sizeVars, uiVars, domVars, pageVars, observed, probe>>

\* ------------------------------------------------------ WebSocket client
\* A socket is "connecting", "open", "closing" (close() was called on it and
\* its close event is to come) or, closed or never created, "none".  api.ws
\* is the index of the socket this.ws refers to, 0 for null.  api.timers is
\* the number of reconnect timeouts pending; api.connects is the number of
\* sockets created since a socket last opened, and api.opened tells whether
\* one ever did.
NewClient ==
    [ws |-> 0, reconnectAttempts |-> 0,
     sockets |-> [i \in 1..MaxSockets |-> "none"], timers |-> 0,
     connects |-> 0, opened |-> FALSE]

Alive == {i \in DOMAIN api.sockets : api.sockets[i] # "none"}

\* connect(): this.ws = new WebSocket(...), with the four handlers.
Connected(a) ==
    LET i == Min(DOMAIN a.sockets \ {j \in DOMAIN a.sockets :
                                      a.sockets[j] # "none"})
    IN  [a EXCEPT !.ws = i, !.sockets[i] = "connecting",
                  !.connects = a.connects + 1]

ApiStep(op) ==
    /\ last' = Record(op, FALSE, {}, {}, FALSE, <<>>, {})
    /\ UNCHANGED <<worldVars, sizeVars, uiVars, domVars, view, overlay, sizer,
                   chat, observed, probe>>

\* connect() called by the page on a client that holds no socket: at
\* DOMContentLoaded, or after disconnect().  (The bounds keep the sockets and
\* the count of connects finite.)
Connect ==
    /\ api.ws = 0
    /\ Cardinality(Alive) + api.timers < MaxSockets
    /\ api.connects <= maxReconnectAttempts
    /\ api' = Connected(api)
    /\ ApiStep("connect")

\* The one call of connect() the page makes, at DOMContentLoaded.
PageConnect == api = NewClient /\ Connect

\* ws.onopen
SocketOpen(i) ==
    /\ api.sockets[i] = "connecting"
    /\ api' = [api EXCEPT !.sockets[i] = "open", !.reconnectAttempts = 0,
                          !.connects = 0, !.opened = TRUE]
    /\ ApiStep("open")

\* An onclose that schedules a reconnect while the count is at most the
\* maximum.
SocketCloseOneMore(i) ==
    /\ api.sockets[i] # "none"
    /\ api' = IF api.reconnectAttempts <= maxReconnectAttempts
              THEN [api EXCEPT !.sockets[i] = "none",
                               !.reconnectAttempts = @ + 1,
                               !.timers = @ + 1]
              ELSE [api EXCEPT !.sockets[i] = "none"]
    /\ ApiStep("close")

\* ws.onclose, of a socket that failed to connect, that the server or the
\* network closed, or that close() closed: schedule a reconnect while the
\* count is below the maximum.
SocketClose(i) ==
    /\ api.sockets[i] # "none"
    /\ api' = IF api.reconnectAttempts < maxReconnectAttempts
              THEN [api EXCEPT !.sockets[i] = "none",
                               !.reconnectAttempts = @ + 1,
                               !.timers = @ + 1]
              ELSE [api EXCEPT !.sockets[i] = "none"]
    /\ ApiStep("close")

\* The timeout of a reconnect fires: connect().
ReconnectTimeout ==
    /\ api.timers > 0
    /\ api' = Connected([api EXCEPT !.timers = @ - 1])
    /\ ApiStep("reconnect")

\* disconnect(): close this.ws and forget it; nothing without a socket.
Disconnect ==
    /\ api.ws # 0
    /\ api' = [api EXCEPT
                 !.ws = 0,
                 !.sockets[api.ws] = IF @ \in {"connecting", "open"}
                                     THEN "closing" ELSE @]
    /\ ApiStep("disconnect")

\* A message whose data JSON.parse rejects.
Unparsable == [parses |-> FALSE]

\* An onmessage that closes the open sockets when the message does not parse.
OnMessageClosing(m) ==
    IF m.parses /\ "time" \in DOMAIN m.state
    THEN Update(m.state)
    ELSE /\ last' = [Record("ignored", FALSE, {}, {}, FALSE, <<>>, {})
                     EXCEPT !.input = Input(IF m.parses THEN m.state
                                            ELSE Unparsable)]
         /\ api' = [api EXCEPT
                      !.sockets = [i \in DOMAIN @ |->
                                     IF @[i] = "open" THEN "closing" ELSE @[i]]]
         /\ UNCHANGED <<worldVars, sizeVars, uiVars, domVars, view, overlay,
                        sizer, chat, observed, probe>>

\* ws.onmessage: JSON.parse, then onStateUpdate(state), which writes the time
\* with state.time.toFixed(2) before it calls networkMap.update(state); what
\* either throws is caught and logged, and the message has no other effect.
OnMessage(m) ==
    IF m.parses /\ "time" \in DOMAIN m.state
    THEN Update(m.state)
    ELSE /\ last' = [Record("ignored", FALSE, {}, {}, FALSE, <<>>, {})
                     EXCEPT !.input = Input(IF m.parses THEN m.state
                                            ELSE Unparsable)]
         /\ UNCHANGED <<worldVars, sizeVars, uiVars, domVars, view, pageVars, observed,
                        probe>>

\* A message arrives on a socket that is open.
Receive(m) ==
    /\ \E i \in DOMAIN api.sockets : api.sockets[i] = "open"
    /\ OnMessage(m)

\* A resize that stores the size and renders nothing.
ResizeWithoutRendering(w, h) ==
    /\ width' = w
    /\ height' = h
    /\ last' = Record("resize", FALSE, {}, {}, FALSE, <<>>, {})
    /\ UNCHANGED <<worldVars, uiVars, domVars, view, pageVars, observed, probe>>

\* resize(width, height): move the projection, re-attribute the boundary
\* paths if they are loaded, re-render edges and nodes.
MapResize(w, h) ==
    LET re == RenderEdges(edges, nodes, w, h, currentTime, edgeLines, flows)
        rn == RenderNodes(nodes, selectedNode, w, h, nodeGroups, labels)
    IN  /\ width' = w
        /\ height' = h
        /\ edgeLines' = re.edgeLines
        /\ flows' = re.flows
        /\ nodeGroups' = rn.nodeGroups
        /\ labels' = rn.labels
        /\ last' = Record("resize", FALSE, re.created \cup rn.created,
                          re.removed \cup rn.removed, rn.threw,
                          RenderEdgesSteps \o RenderNodesSteps(rn.threw),
                          Rebound(flows, re.flows))
        /\ overlay' = [overlay EXCEPT
                         !.paths = IF overlay.usStates # Null
                                   THEN [i \in DOMAIN overlay.paths |->
                                           [overlay.paths[i] EXCEPT
                                              !.d = <<w, h>>]]
                                   ELSE overlay.paths]
        /\ UNCHANGED <<worldVars, uiVars, view, api, chat, observed, probe>>

\* resize(width, height) called on its own, outside the page's handlers.
Resize(w, h) == MapResize(w, h) /\ UNCHANGED sizer

\* window 'resize' event: the container has its new size; clearTimeout, then
\* setTimeout of the call of resize, 100 ms later.
WindowResize(sz) ==
    /\ sizer' = [sizer EXCEPT !.container = sz, !.resizeTimeout = TRUE]
    /\ last' = Record("windowresize", FALSE, {}, {}, FALSE, <<>>, {})
    /\ UNCHANGED <<worldVars, sizeVars, uiVars, domVars, view, overlay, api,
                   chat, observed, probe>>

\* The timeout of the window resize handler fires: resize to the container.
ResizeTimeout ==
    /\ sizer.resizeTimeout
    /\ sizer' = [sizer EXCEPT !.resizeTimeout = FALSE]
    /\ MapResize(sizer.container[1], sizer.container[2])

\* mousedown on the sidebar's resize handle.
HandleMouseDown ==
    /\ sizer' = [sizer EXCEPT !.isResizing = TRUE]
    /\ last' = Record("mousedown", FALSE, {}, {}, FALSE, <<>>, {})
    /\ UNCHANGED <<worldVars, sizeVars, uiVars, domVars, view, overlay, api,
                   chat, observed, probe>>

\* mousemove on the document while the handle is held: the sidebar gets its
\* new width, which leaves the container the size sz, and resize is called
\* with it.  Without the handle held the handler returns at once.
DocumentMouseMove(sz) ==
    /\ sizer.isResizing
    /\ sizer' = [sizer EXCEPT !.container = sz]
    /\ MapResize(sz[1], sz[2])

\* mouseup on the document while the handle is held.
DocumentMouseUp ==
    /\ sizer.isResizing
    /\ sizer' = [sizer EXCEPT !.isResizing = FALSE]
    /\ last' = Record("mouseup", FALSE, {}, {}, FALSE, <<>>, {})
    /\ UNCHANGED <<worldVars, sizeVars, uiVars, domVars, view, overlay, api,
                   chat, observed, probe>>

\* The features of the boundary data (us.objects.states), by index.
Features == {1, 2}

\* renderStates(): nothing without the data; else one path for each feature
\* that has none yet, drawn under the current projection.
RenderStates(usStates, paths, w, h) ==
    IF usStates = Null THEN paths
    ELSE [i \in usStates.features |->
            IF i \in DOMAIN paths THEN paths[i] ELSE [d |-> <<w, h>>]]

\* A failed load that starts the load again.
LoadUSStatesRetrying ==
    /\ overlay.loading
    /\ last' = Record("loadfailed", FALSE, {}, {}, FALSE, <<>>, {})
    /\ UNCHANGED <<worldVars, sizeVars, uiVars, domVars, view, pageVars,
                   observed, probe>>

\* loadUSStates() resumes with the fetched and parsed data: store the
\* features, renderStates().
LoadUSStates ==
    /\ overlay.loading
    /\ overlay' = [usStates |-> [features |-> Features], loading |-> FALSE,
                   paths |-> RenderStates([features |-> Features],
                                          overlay.paths, width, height)]
    /\ last' = Record("loaded", FALSE, {}, {}, FALSE, <<"states">>, {})
    /\ UNCHANGED <<worldVars, sizeVars, uiVars, domVars, view, sizer, api,
                   chat, observed, probe>>

\* loadUSStates() resumes with a rejected fetch or a parse error: the catch
\* logs it.
LoadUSStatesFails ==
    /\ overlay.loading
    /\ overlay' = [overlay EXCEPT !.loading = FALSE]
    /\ last' = Record("loadfailed", FALSE, {}, {}, FALSE, <<>>, {})
    /\ UNCHANGED <<worldVars, sizeVars, uiVars, domVars, view, sizer, api,
                   chat, observed, probe>>

\* ------------------------------------------------------- chat interface
\* A text is a sequence of characters, " " the white space among them.
\* chat.messages is this.messages, each [role, content]; chat.disabled is
\* the disabled flag of the input and of the send button (they are set
\* together); chat.request is Null or the message whose request is pending.
RECURSIVE TrimStart(_)
TrimStart(t) ==
    IF t # <<>> /\ Head(t) = " " THEN TrimStart(Tail(t)) ELSE t

RECURSIVE TrimEnd(_)
TrimEnd(t) ==
    IF t # <<>> /\ t[Len(t)] = " " THEN TrimEnd(SubSeq(t, 1, Len(t) - 1))
    ELSE t

\* String.prototype.trim
Trim(t) == TrimEnd(TrimStart(t))

\* addMessage(role, content)
AddMessage(msgs, role, content) ==
    Append(msgs, [role |-> role, content |-> content])

ChatStep(op) ==
    /\ last' = Record(op, FALSE, {}, {}, FALSE, <<>>, {})
    /\ UNCHANGED <<worldVars, sizeVars, uiVars, domVars, view, overlay, sizer,
                   api, observed, probe>>

\* The timeout set at DOMContentLoaded adds the welcome message.
Welcome ==
    /\ ~chat.welcomed
    /\ Len(chat.messages) < MaxMessages
    /\ chat' = [chat EXCEPT !.welcomed = TRUE,
                            !.messages = AddMessage(@, "system", <<"w">>)]
    /\ ChatStep("welcome")

\* sendMessage() up to its await, on a click of the send button or on Enter
\* in the input, neither of which a disabled control dispatches: nothing on
\* a blank value; else the user message, the input cleared, both controls
\* disabled, the request sent.  (The bound leaves room for the reply.)
SendMessage(value) ==
    /\ ~chat.disabled
    /\ Len(chat.messages) + 3 <= MaxMessages
    /\ IF Trim(value) = <<>>
       THEN chat' = chat /\ ChatStep("blank")
       ELSE /\ chat' = [chat EXCEPT
                          !.messages = AddMessage(@, "user", Trim(value)),
                          !.disabled = TRUE,
                          !.request = [message |-> Trim(value)]]
            /\ ChatStep("send")

\* The ways the request settles: a reply, a reply with an executed action, a
\* response that is not OK, a rejected fetch, a body that is not JSON.
Outcomes == {"reply", "action", "status", "rejected", "body"}

\* What sendMessage() appends after its await.
Replies(outcome) ==
    IF outcome = "reply" THEN <<"assistant">>
    ELSE IF outcome = "action" THEN <<"assistant", "system">>
    ELSE <<"error">>

\* A sendMessage() that re-enables the controls after a reply only.
SettleWithoutFinally(outcome) ==
    /\ chat.request # Null
    /\ chat' = [chat EXCEPT
                  !.messages = @ \o [i \in DOMAIN Replies(outcome) |->
                                       [role |-> Replies(outcome)[i],
                                        content |-> <<outcome>>]],
                  !.disabled = Replies(outcome) = <<"error">>,
                  !.request = Null]
    /\ ChatStep("settle")

\* sendMessage() from its await on: the reply (and the action's feedback) or
\* the error message, then, in finally, both controls enabled.
Settle(outcome) ==
    /\ chat.request # Null
    /\ chat' = [chat EXCEPT
                  !.messages = @ \o [i \in DOMAIN Replies(outcome) |->
                                       [role |-> Replies(outcome)[i],
                                        content |-> <<outcome>>]],
                  !.disabled = FALSE,
                  !.request = Null]
    /\ ChatStep("settle")

\* One evaluation of the progress function on its own.
Evaluate(t, start_time, duration) ==
    /\ probe' = [t |-> t, start_time |-> start_time, duration |-> duration,
                 progress |-> Progress(t, start_time, duration)]
    /\ UNCHANGED <<worldVars, sizeVars, uiVars, domVars, view, last, pageVars, observed>>

\* -------------------------------------------------------- initial state
\* d3.zoomIdentity: scale k, translation (x, y).
Identity == [k |-> 1, x |-> 0, y |-> 0]

InitSize == <<8, 6>>
Sizes == {InitSize, <<12, 8>>}

\* The state the constructor leaves: nothing drawn, nothing hovered or selected.
Constructed ==
    /\ nodes = <<>>
    /\ edges = {}
    /\ isRunning = FALSE
    /\ currentTime = 0
    /\ width = InitSize[1]
    /\ height = InitSize[2]
    /\ hoveredNode = Null
    /\ selectedNode = Null
    /\ tooltip = Null
    /\ panel = [visible |-> FALSE, content |-> Null]
    /\ nodeGroups = <<>>
    /\ labels = <<>>
    /\ edgeLines = <<>>
    /\ flows = <<>>
    /\ view = Identity
    /\ overlay = [usStates |-> Null, loading |-> TRUE, paths |-> <<>>]
    /\ sizer = [isResizing |-> FALSE, resizeTimeout |-> FALSE,
                container |-> InitSize]
    /\ api = NewClient
    /\ chat = [messages |-> <<>>, disabled |-> FALSE, request |-> Null,
               welcomed |-> FALSE]
    /\ last = [op |-> "", input |-> Null, steps |-> <<>>, repeat |-> FALSE,
               created |-> {}, removed |-> {}, threw |-> FALSE, rebound |-> {}]
    /\ probe = Null

\* --------------------------------------------------------------- inputs
NodeType(id) == IF id % 2 = 1 THEN "manufacturing_center" ELSE "distributor"

NodeObjects(id, locs, states) ==
    {[id |-> id, type |-> NodeType(id), location |-> l, state |-> v]
     : l \in locs, v \in states}

\* Every node array over the ids, with unique ids.
NodeArrays(ids, locs, states) ==
    UNION {{f \in [S -> UNION {NodeObjects(i, locs, states) : i \in S}]
            : \A i \in S : f[i].id = i} : S \in SUBSET ids}

Snapshot(t, run, ns, es) == [time |-> t, running |-> run, nodes |-> ns, edges |-> es]

\* Snapshots that vary the nodes: present or not, in or out of the frame, and
\* their state.
NodeSnapshots ==
    {Snapshot(0, TRUE, ns, {})
     : ns \in NodeArrays(NodeIds, {OutOfFrame, 1}, {1})}

Delivery(o, st, du) == [order_id |-> o, start_time |-> {st}, duration |-> {du}]

Deliveries(l, st, du) == [i \in 1..Len(l) |-> Delivery(l[i], st, du)]

Edge(type, from, to, ao, ds) ==
    [edge_type |-> type, from |-> from, to |-> to, active_orders |-> ao,
     deliveries |-> ds]

\* The edges between nodes 1 and 2 when the orders of l are in transit: the
\* structural edge, and either the delivery edge carrying them or, with
\* nothing in transit, a pending order-placement signal.
Traffic(l) ==
    {Edge("structural", 1, 2, 0, <<>>)}
    \cup (IF l = <<>> THEN {Edge("order_placement", 2, 1, 1, <<>>)}
          ELSE {Edge("delivery", 1, 2, Len(l), Deliveries(l, 0, MaxDuration))})

\* The node array holding nodes 1..n, the node bad (if any) outside the frame.
NodesUpTo(n, bad) ==
    [i \in 1..n |->
       [id |-> i, type |-> NodeType(i),
        location |-> IF i = bad THEN OutOfFrame ELSE 1, state |-> 1]]

\* Snapshots that vary how many nodes there are, which one (if any) is outside
\* the frame, and how many orders are in transit.
ReconSnapshots ==
    {Snapshot(1, TRUE, NodesUpTo(n, bad), Traffic([i \in 1..m |-> i]))
     : n \in 0..MaxNodes, bad \in 0..MaxNodes, m \in 0..MaxOrders}

\* All nodes present, each at a location inside the frame.
FixedNodes ==
    [i \in NodeIds |->
       [id |-> i, type |-> NodeType(i), location |-> ((i - 1) % MaxLoc) + 1,
        state |-> 1]]

RECURSIVE SortedList(_)
SortedList(S) ==
    IF S = {} THEN <<>> ELSE <<Min(S)>> \o SortedList(S \ {Min(S)})

\* The delivery edge from -> to carrying the orders of S, with its
\* active_orders either their number or 0; no edge when S is empty.
Route(from, to, S, active) ==
    IF S = {} THEN {}
    ELSE {Edge("delivery", from, to, IF active THEN Cardinality(S) ELSE 0,
               Deliveries(SortedList(S), 0, MaxDuration))}

\* Snapshots that vary which orders are in transit on the two delivery routes
\* between nodes 1 and 2, and whether the route back reports active orders.
FlowSnapshots ==
    {Snapshot(1, TRUE, FixedNodes,
              Route(1, 2, {o \in Orders : at[o] = 1}, TRUE)
              \cup Route(2, 1, {o \in Orders : at[o] = 2}, a))
     : at \in [Orders -> 0..2], a \in BOOLEAN}

\* ------------------------------------------------------- specifications
\* Selection: snapshots that vary the nodes, clicks and resizes.
NextSelect ==
    \/ \E s \in NodeSnapshots : Update(s)
    \/ \E k \in NodeIds : ClickNode(k)
    \/ ClickBackground
    \/ \E sz \in Sizes : Resize(sz[1], sz[2])

InitSelect == Constructed /\ observed = {"op", "threw"}

SpecSelect == InitSelect /\ [][NextSelect]_vars

\* Hover: snapshots that vary the nodes, pointer enter and leave, and resizes.
NextHover ==
    \/ \E s \in NodeSnapshots : Update(s)
    \/ \E k \in NodeIds : MouseEnter(k)
    \/ \E k \in NodeIds : MouseLeave(k)
    \/ \E sz \in Sizes : Resize(sz[1], sz[2])

InitHover == Constructed /\ observed = {"op", "threw"}

SpecHover == InitHover /\ [][NextHover]_vars

\* Reconciliation: snapshots that vary the nodes and the traffic.
NextRecon == \E s \in ReconSnapshots : Update(s)

InitRecon ==
    Constructed /\ observed = {"op", "repeat", "created", "removed", "threw"}

SpecRecon == InitRecon /\ [][NextRecon]_vars

\* Particles: snapshots that vary the deliveries in transit.
NextFlow == \E s \in FlowSnapshots : Update(s)

InitFlow == Constructed /\ observed = {"op", "removed", "rebound"}

SpecFlow == InitFlow /\ [][NextFlow]_vars

\* The progress function alone, over times, start times and durations.
OptNum(S) == {{}} \cup {{n} : n \in S}

NextProgress ==
    \E t \in 0..MaxTime, st \in OptNum(0..MaxStart),
       du \in OptNum((0 - 1)..MaxDuration) : Evaluate(t, st, du)

InitProgress == Constructed /\ observed = {}

SpecProgress == InitProgress /\ [][NextProgress]_vars

\* Stages: snapshots that vary how many nodes there are and which one (if
\* any) is outside the frame, pointer enter and clicks on nodes.
StageSnapshots ==
    {Snapshot(0, TRUE, NodesUpTo(n, bad), {})
     : n \in 0..MaxNodes, bad \in 0..MaxNodes}

NextStages ==
    \/ \E s \in StageSnapshots : Update(s)
    \/ \E k \in NodeIds : MouseEnter(k)
    \/ \E k \in NodeIds : ClickNode(k)

InitStages == Constructed /\ observed = {"op", "threw", "steps"}

SpecStages == InitStages /\ [][NextStages]_vars

\* Highlight: the same snapshots, clicks on nodes and on the background, and
\* resizes.
NextHighlight ==
    \/ \E s \in StageSnapshots : Update(s)
    \/ \E k \in NodeIds : ClickNode(k)
    \/ ClickBackground
    \/ \E sz \in Sizes : Resize(sz[1], sz[2])

InitHighlight == Constructed /\ observed = {"op", "threw"}

SpecHighlight == InitHighlight /\ [][NextHighlight]_vars

\* Encoding: between two nodes inside the frame, for each edge category, no
\* edge or one with an activity count; the in-transit edge lists as many
\* deliveries as it counts.
EdgeTypes == {"structural", "order_placement", "delivery"}

EdgeSnapshots ==
    {Snapshot(1, TRUE, FixedNodes,
              {Edge(type, 1, 2, count[type],
                    IF type = "delivery"
                    THEN Deliveries([i \in 1..count[type] |-> i], 0, MaxDuration)
                    ELSE <<>>) : type \in present})
     : present \in SUBSET EdgeTypes, count \in [EdgeTypes -> 0..MaxOrders]}

NextEdges == \E s \in EdgeSnapshots : Update(s)

InitEdges == Constructed /\ observed = {"op"}

SpecEdges == InitEdges /\ [][NextEdges]_vars

\* Tooltip: the same snapshots as for the stages, pointer enter and leave.
NextTooltip ==
    \/ \E s \in StageSnapshots : Update(s)
    \/ \E k \in NodeIds : MouseEnter(k)
    \/ \E k \in NodeIds : MouseLeave(k)

InitTooltip == Constructed /\ observed = {"op", "threw"}

SpecTooltip == InitTooltip /\ [][NextTooltip]_vars

\* World: snapshots that carry any of the four fields or lack them, over
\* no nodes or all of them, no edges or the edges of one order in transit,
\* two times and the running flag.
Fields == {"time", "running", "nodes", "edges"}

Partial(s, D) == [f \in D |-> s[f]]

WorldSnapshots ==
    {Partial(Snapshot(t, run, NodesUpTo(n, 0), es), D)
     : t \in {0, MaxTime}, run \in BOOLEAN, n \in {0, MaxNodes},
       es \in {{}, Traffic(<<1>>)}, D \in SUBSET Fields}

NextWorld == \E s \in WorldSnapshots : Update(s)

InitWorld == Constructed /\ observed = {"op", "input", "removed"}

SpecWorld == InitWorld /\ [][NextWorld]_vars

\* Channel: the messages of the inbound channel, one that does not parse and
\* one for each of the snapshots above.
Messages ==
    {Unparsable} \cup {[parses |-> TRUE, state |-> s] : s \in WorldSnapshots}

NextChannel == \E m \in Messages : OnMessage(m)

InitChannel == Constructed /\ observed = {"op", "input"}

SpecChannel == InitChannel /\ [][NextChannel]_vars

\* View: snapshots of the first n nodes inside the frame with one order in
\* transit, pointer enter and clicks on nodes, and zoom events over an
\* enlargement, a translation and the identity.
ViewSnapshots ==
    {Snapshot(1, TRUE, NodesUpTo(n, 0), Traffic(<<1>>)) : n \in 0..MaxNodes}

Transforms ==
    {Identity, [k |-> 2, x |-> 0, y |-> 0], [k |-> 1, x |-> 1, y |-> 1]}

NextView ==
    \/ \E s \in ViewSnapshots : Update(s)
    \/ \E k \in NodeIds : MouseEnter(k)
    \/ \E k \in NodeIds : ClickNode(k)
    \/ \E transform \in Transforms : Zoom(transform)

InitView == Constructed /\ observed = {"op", "created", "removed", "steps"}

SpecView == InitView /\ [][NextView]_vars

\* Pointer: snapshots of no node or all of them, the last one inside the
\* frame or outside, with one order in transit, and the four pointer events.
PointerSnapshots ==
    {Snapshot(1, TRUE, NodesUpTo(n, bad), Traffic(<<1>>))
     : n \in {0, MaxNodes}, bad \in {0, MaxNodes}}

NextPointer ==
    \/ \E s \in PointerSnapshots : Update(s)
    \/ \E k \in NodeIds : MouseEnter(k)
    \/ \E k \in NodeIds : MouseLeave(k)
    \/ \E k \in NodeIds : ClickNode(k)
    \/ ClickBackground

InitPointer ==
    Constructed /\ observed = {"op", "created", "removed", "steps", "threw"}

SpecPointer == InitPointer /\ [][NextPointer]_vars

\* Resizing: the snapshots of the pointer events, pointer enter, clicks on
\* nodes, zoom events, and resizes over the sizes.
NextResize ==
    \/ \E s \in PointerSnapshots : Update(s)
    \/ \E k \in NodeIds : MouseEnter(k)
    \/ \E k \in NodeIds : ClickNode(k)
    \/ \E transform \in Transforms : Zoom(transform)
    \/ \E sz \in Sizes : Resize(sz[1], sz[2])

InitResize == Constructed /\ observed = {"op", "created", "removed", "threw"}

SpecResize == InitResize /\ [][NextResize]_vars

\* Sizer: the snapshots of the view, window resize events with their timeout,
\* and drags of the sidebar handle.
NextSizer ==
    \/ \E s \in ViewSnapshots : Update(s)
    \/ \E sz \in Sizes : WindowResize(sz)
    \/ ResizeTimeout
    \/ HandleMouseDown
    \/ \E sz \in Sizes : DocumentMouseMove(sz)
    \/ DocumentMouseUp

InitSizer == Constructed /\ observed = {"op"}

SpecSizer == InitSizer /\ [][NextSizer]_vars

\* Overlay: the snapshots of the view, clicks on nodes, resizes, and the two
\* ways the load of the boundary data ends.
NextOverlay ==
    \/ \E s \in ViewSnapshots : Update(s)
    \/ \E k \in NodeIds : ClickNode(k)
    \/ \E sz \in Sizes : Resize(sz[1], sz[2])
    \/ LoadUSStates
    \/ LoadUSStatesFails

InitOverlay == Constructed /\ observed = {"op", "threw"}

SpecOverlay == InitOverlay /\ [][NextOverlay]_vars

\* Identity: snapshots that vary which nodes are present and the state they
\* all have, so that the object of a node differs from one snapshot to
\* another, and the four pointer events.
IdentitySnapshots ==
    {Snapshot(0, TRUE,
              [i \in S |-> [id |-> i, type |-> NodeType(i), location |-> 1,
                            state |-> v]], {})
     : S \in SUBSET NodeIds, v \in {1, 2}}

NextIdentity ==
    \/ \E s \in IdentitySnapshots : Update(s)
    \/ \E k \in NodeIds : MouseEnter(k)
    \/ \E k \in NodeIds : MouseLeave(k)
    \/ \E k \in NodeIds : ClickNode(k)
    \/ ClickBackground

InitIdentity == Constructed /\ observed = {"op"}

SpecIdentity == InitIdentity /\ [][NextIdentity]_vars

\* Client: the WebSocket client under the calls of connect() and
\* disconnect() and the events of its sockets and timeouts.
NextClient ==
    \/ Connect
    \/ \E i \in 1..MaxSockets : SocketOpen(i)
    \/ \E i \in 1..MaxSockets : SocketClose(i)
    \/ ReconnectTimeout
    \/ Disconnect

InitClient == Constructed /\ observed = {"op"}

SpecClient == InitClient /\ [][NextClient]_vars

\* Session: the client as the page uses it, one call of connect() and then
\* only the events of its sockets and timeouts, with the messages that arrive
\* on an open socket, one that does not parse and the snapshots of the view.
SessionMessages ==
    {Unparsable} \cup {[parses |-> TRUE, state |-> s] : s \in ViewSnapshots}

NextSession ==
    \/ PageConnect
    \/ \E i \in 1..MaxSockets : SocketOpen(i)
    \/ \E i \in 1..MaxSockets : SocketClose(i)
    \/ ReconnectTimeout
    \/ \E m \in SessionMessages : Receive(m)

InitSession == Constructed /\ observed = {"op", "input"}

SpecSession == InitSession /\ [][NextSession]_vars

\* Chat: the welcome message, sends of the values of the input, blank ones
\* among them, and the outcomes of the requests.
Values ==
    {<<>>, <<" ">>, <<"a">>, <<" ", " ">>, <<" ", "a">>, <<"a", " ">>,
     <<"a", "b">>}

NextChat ==
    \/ Welcome
    \/ \E value \in Values : SendMessage(value)
    \/ \E outcome \in Outcomes : Settle(outcome)

InitChat == Constructed /\ observed = {"op"}

SpecChat == InitChat /\ [][NextChat]_vars

\* Motion: one delivery route between two nodes inside the frame, over the
\* simulation times, start times and durations, and resizes.
Shipment(o, start_time, duration) ==
    [order_id |-> o, start_time |-> start_time, duration |-> duration]

MotionTimes == 0..(MaxStart + MaxDuration)

MotionSnapshots ==
    {Snapshot(t, TRUE, FixedNodes,
              {Edge("delivery", 1, 2, MaxOrders,
                    [i \in Orders |-> Shipment(i, st, du)])})
     : t \in MotionTimes, st \in OptNum(0..MaxStart),
       du \in OptNum((0 - 1)..MaxDuration)}

NextMotion ==
    \/ \E s \in MotionSnapshots : Update(s)
    \/ \E sz \in Sizes : Resize(sz[1], sz[2])

InitMotion == Constructed /\ observed = {"op"}

SpecMotion == InitMotion /\ [][NextMotion]_vars

\* Skipping: one delivery route from node 1 to node 2, node 2 being inside
\* the frame, outside it, or not in the node array, over the sizes, among
\* them the one that puts node 1 on the left border (x = 0).
SkipNodes(second) ==
    [i \in {j \in NodeIds : j = 1 \/ (j = 2 /\ second # "absent")} |->
       [id |-> i, type |-> NodeType(i),
        location |-> IF i = 2 /\ second = "outside" THEN OutOfFrame ELSE i,
        state |-> 1]]

SkipSnapshots ==
    {Snapshot(t, TRUE, SkipNodes(second),
              IF m = 0 THEN {}
              ELSE {Edge("delivery", 1, 2, m,
                         Deliveries([i \in 1..m |-> i], 0, MaxDuration))})
     : t \in 0..MaxDuration, second \in {"inside", "outside", "absent"},
       m \in 0..MaxOrders}

BorderSize == <<0 - 2 * RawXY(1)[1], InitSize[2]>>

NextSkip ==
    \/ \E s \in SkipSnapshots : Update(s)
    \/ \E sz \in Sizes \cup {BorderSize} : Resize(sz[1], sz[2])

InitSkip == Constructed /\ observed = {"op"}

SpecSkip == InitSkip /\ [][NextSkip]_vars

\* Sizing: two manufacturing centers and two distributors, all inside the
\* frame, over the values they are sized by; and one snapshot whose last node
\* is outside the frame.
SizedIds == {1, 2, 3, 4}

SizedNodes(value, outside) ==
    [i \in SizedIds |->
       [id |-> i, type |-> NodeType(i),
        location |-> IF i \in outside THEN OutOfFrame
                     ELSE ((i - 1) % MaxLoc) + 1,
        state |-> value[i]]]

RadiusSnapshots ==
    {Snapshot(0, TRUE, SizedNodes(value, {}), {})
     : value \in [SizedIds -> 0..MaxValue]}
    \cup {Snapshot(0, TRUE,
                   SizedNodes([i \in SizedIds |-> MaxValue], {4}),
                   {})}

NextRadius == \E s \in RadiusSnapshots : Update(s)

InitRadius == Constructed /\ observed = {"op", "threw"}

SpecRadius == InitRadius /\ [][NextRadius]_vars

\* ------------------------------------------------------------- claims
\* C1: after a completed update, a node that was selected before the call and
\* whose id is absent from the snapshot's nodes is no longer selected.
C1_SelectionClearedWhenAbsent ==
    [][(/\ last'.op = "update" /\ ~last'.threw
        /\ selectedNode # Null
        /\ selectedNode.id \notin DOMAIN nodes') => selectedNode' = Null]_vars

\* C2: after a completed update, a node that was hovered before the call and
\* whose id is absent from the snapshot's nodes is no longer hovered, and the
\* tooltip is gone.
C2_HoverClearedWhenAbsent ==
    [][(/\ last'.op = "update" /\ ~last'.threw
        /\ hoveredNode # Null
        /\ hoveredNode.id \notin DOMAIN nodes')
       => (hoveredNode' = Null /\ tooltip' = Null)]_vars

\* C3: after every completed operation the details panel is visible only if a
\* node is selected and a node with its id is in the current node array.
C3_PanelOnlyForPresentSelection ==
    (~last.threw /\ panel.visible)
    => (selectedNode # Null /\ selectedNode.id \in DOMAIN nodes)

\* C4: an update whose snapshot holds a node with the selected id leaves that
\* id selected and the panel showing that node's attributes from the snapshot.
C4_PanelFollowsLatestSnapshot ==
    [][(/\ last'.op = "update"
        /\ selectedNode # Null
        /\ selectedNode.id \in DOMAIN nodes')
       => (/\ selectedNode' # Null
           /\ selectedNode'.id = selectedNode.id
           /\ panel'.visible
           /\ panel'.content = nodes'[selectedNode.id])]_vars

\* The element drawn for each key, layer by layer.
ElementIds ==
    [node |-> [k \in DOMAIN nodeGroups |-> nodeGroups[k].el],
     label |-> [k \in DOMAIN labels |-> labels[k].el],
     edge |-> [k \in DOMAIN edgeLines |-> edgeLines[k].el],
     flow |-> [k \in DOMAIN flows |-> flows[k].el]]

\* C5: an update that applies the snapshot the update just before it applied
\* creates no element and removes none, and every key of every layer keeps
\* the very element it had.
C5_SecondApplicationKeepsElements ==
    [][last'.repeat => (/\ last'.created = {}
                        /\ last'.removed = {}
                        /\ ElementIds' = ElementIds)]_vars

\* C5 witness: a repeated snapshot with elements drawn in all four layers.
C5_Witness ==
    /\ last.repeat
    /\ DOMAIN nodeGroups # {} /\ DOMAIN labels # {}
    /\ DOMAIN edgeLines # {} /\ DOMAIN flows # {}

\* The deliveries listed on the delivery edges, each with its edge; with
\* needActive, only on the edges whose active_orders is above zero.
ListedDeliveries(es, needActive) ==
    UNION {{[edge |-> e, delivery |-> e.deliveries[i]]
            : i \in 1..Len(e.deliveries)}
           : e \in {d \in es : /\ d.edge_type = "delivery"
                                /\ (needActive => d.active_orders > 0)}}

\* C6: after every pass the keys drawn in each layer are exactly the keys of
\* the data the pass was given: node ids for groups and labels, (category,
\* from, to) for lines, order ids of the shown deliveries for particles.
C6_DrawnKeysAreDataKeys ==
    /\ DOMAIN nodeGroups = DOMAIN nodes
    /\ DOMAIN labels = DOMAIN nodes
    /\ DOMAIN edgeLines = {EdgeKey(d) : d \in edges}
    /\ DOMAIN flows = {x.delivery.order_id : x \in ListedDeliveries(edges, TRUE)}

\* The particles drawn are, one to one, the deliveries of ds: one element per
\* delivery under its order id, no two sharing an element, and no other.
OneParticlePer(ds) ==
    /\ DOMAIN flows = {x.delivery.order_id : x \in ds}
    /\ \A x \in ds :
         /\ flows[x.delivery.order_id].d.delivery = x.delivery
         /\ flows[x.delivery.order_id].d.edge = x.edge
    /\ \A j, k \in DOMAIN flows : j # k => flows[j].el # flows[k].el

\* C7 as stated: after an update the particles are, one to one, the deliveries
\* listed on the delivery edges of the snapshot.
C7_ParticlePerListedDelivery ==
    last.op = "update" => OneParticlePer(ListedDeliveries(edges, FALSE))

\* C7 as amended: after an update the particles are, one to one, the
\* deliveries listed on the delivery edges whose active_orders is above zero.
C7_ParticlePerActiveDelivery ==
    last.op = "update" => OneParticlePer(ListedDeliveries(edges, TRUE))

\* C7 witness: a snapshot with deliveries on an active route, which have
\* particles, and deliveries on a route that reports no active orders.
C7_Witness ==
    /\ last.op = "update"
    /\ DOMAIN flows # {}
    /\ \E e \in edges : /\ e.edge_type = "delivery" /\ e.active_orders = 0
                        /\ Len(e.deliveries) > 0

\* The order ids listed on the delivery edges.
DeliveryOrders(es) ==
    {x.delivery.order_id : x \in ListedDeliveries(es, FALSE)}

\* C8: an order listed on a delivery edge before an update and on none in the
\* snapshot has no particle once the update returns.
C8_ParticleRemovedAtOnce ==
    [][last'.op = "update"
       => \A o \in DeliveryOrders(edges) \ DeliveryOrders(edges') :
            o \notin DOMAIN flows']_vars

\* C8 witness: the update removed the particle of an order that left the
\* snapshot, and kept another.
C8_Witness ==
    /\ last.op = "update"
    /\ DOMAIN flows # {}
    /\ \E o \in Orders : /\ <<"flow", o>> \in last.removed
                         /\ o \notin DeliveryOrders(edges)
                         /\ o \notin DOMAIN flows

\* The value of an optional number that is present.
The(x) == CHOOSE n \in x : TRUE

ProgressInUnitInterval ==
    RLeq(<<0, 1>>, probe.progress) /\ RLeq(probe.progress, <<1, 1>>)

\* progress = 0 exactly when t <= start, progress = 1 exactly when
\* t >= start + duration.
EndpointsAt(start, duration) ==
    /\ REq(probe.progress, <<0, 1>>) <=> (probe.t <= start)
    /\ REq(probe.progress, <<1, 1>>) <=> (probe.t >= start + duration)

\* C9 as stated: for every delivery with a start time and a duration,
\* 0 <= progress <= 1, progress = 0 exactly when t <= start_time and
\* progress = 1 exactly when t >= start_time + duration.
C9_ProgressEndpoints ==
    (probe # Null /\ probe.start_time # {} /\ probe.duration # {})
    => (/\ ProgressInUnitInterval
        /\ EndpointsAt(The(probe.start_time), The(probe.duration)))

\* C9 as amended: 0 <= progress <= 1 always, and for a delivery whose
\* duration is greater than zero, progress = 0 exactly when t <= start_time
\* and progress = 1 exactly when t >= start_time + duration (a missing
\* start_time counting as 0).
C9_ProgressEndpointsPositiveDuration ==
    probe # Null
    => (/\ ProgressInUnitInterval
        /\ (probe.duration # {} /\ The(probe.duration) > 0)
           => EndpointsAt(IF probe.start_time = {} THEN 0
                          ELSE The(probe.start_time),
                          The(probe.duration)))

\* C9 witness: a delivery of positive duration evaluated strictly inside its
\* window, where progress is strictly between 0 and 1.
C9_Witness ==
    /\ probe # Null
    /\ probe.duration # {} /\ The(probe.duration) > 0
    /\ probe.start_time # {}
    /\ The(probe.start_time) < probe.t
    /\ probe.t < The(probe.start_time) + The(probe.duration)
    /\ ~REq(probe.progress, <<0, 1>>) /\ ~REq(probe.progress, <<1, 1>>)

\* C10 as stated: a duration that is zero, negative or missing gives progress 0
\* at every simulation time.
C10_NoProgressWithoutDuration ==
    (probe # Null /\ (probe.duration = {} \/ The(probe.duration) <= 0))
    => REq(probe.progress, <<0, 1>>)

\* C10 as amended: a negative duration gives progress 0 at every simulation
\* time; a zero or missing duration is replaced by the default of 10, so
\* progress is then (t - start_time) / 10 clamped to [0, 1].
C10_NoProgressWithNegativeDuration ==
    probe # Null =>
      LET start == IF probe.start_time = {} THEN 0 ELSE The(probe.start_time)
      IN  /\ (probe.duration # {} /\ The(probe.duration) < 0)
             => REq(probe.progress, <<0, 1>>)
          /\ (probe.duration = {} \/ probe.duration = {0})
             => REq(probe.progress,
                    IF probe.t <= start THEN <<0, 1>>
                    ELSE IF probe.t >= start + DefaultDuration THEN <<1, 1>>
                    ELSE <<probe.t - start, DefaultDuration>>)

\* C10 witness: a negative duration evaluated after the start time, with
\* progress 0.
C10_Witness ==
    /\ probe # Null
    /\ probe.duration # {} /\ The(probe.duration) < 0
    /\ probe.start_time # {} /\ probe.t > The(probe.start_time)
    /\ REq(probe.progress, <<0, 1>>)

\* A rational point equals an integer point.
AtPoint(q, pt) == REq(q[1], <<pt[1], 1>>) /\ REq(q[2], <<pt[2], 1>>)

\* A rational point is the midpoint of two integer points.
AtMidpoint(q, a, b) ==
    REq(q[1], <<a[1] + b[1], 2>>) /\ REq(q[2], <<a[2] + b[2], 2>>)

\* The particles the last pass positioned.
Positioned == {k \in DOMAIN flows : flows[k].pos # Null}

\* The base position of particle k is at the source at time start, at the
\* destination at time start + duration, and at the midpoint half-way.
BaseAtKeyTimes(k, start, duration) ==
    LET pos == flows[k].pos
    IN  /\ currentTime = start => AtPoint(pos.base, pos.from)
        /\ currentTime = start + duration => AtPoint(pos.base, pos.to)
        /\ 2 * (currentTime - start) = duration
           => AtMidpoint(pos.base, pos.from, pos.to)

\* The base position of particle k is the interpolation between the projected
\* ends of its edge at the progress of its delivery.
BaseInterpolates(k) ==
    LET pos == flows[k].pos
        d == flows[k].d
        p == Progress(currentTime, d.delivery.start_time, d.delivery.duration)
    IN  /\ pos.from = GetNodeProjection(nodes, d.edge.from, width, height)
        /\ pos.to = GetNodeProjection(nodes, d.edge.to, width, height)
        /\ REq(pos.base[1],
               <<pos.from[1] * p[2] + p[1] * (pos.to[1] - pos.from[1]), p[2]>>)
        /\ REq(pos.base[2],
               <<pos.from[2] * p[2] + p[1] * (pos.to[2] - pos.from[2]), p[2]>>)

\* C11 as stated: before the stagger offset a positioned particle is at the
\* interpolation between the projected source and destination of its edge at
\* its progress; for a delivery with a start time and a duration it is at the
\* source at t = start_time, at the destination at t = start_time + duration
\* and at the midpoint at the half-way time.
C11_BaseAtKeyTimes ==
    \A k \in Positioned :
      /\ BaseInterpolates(k)
      /\ (flows[k].d.delivery.start_time # {}
          /\ flows[k].d.delivery.duration # {})
         => BaseAtKeyTimes(k, The(flows[k].d.delivery.start_time),
                           The(flows[k].d.delivery.duration))

\* C11 as amended: the same, the three key times being claimed only for a
\* delivery whose duration is greater than zero (a missing start_time
\* counting as 0).
C11_BaseAtKeyTimesPositiveDuration ==
    \A k \in Positioned :
      /\ BaseInterpolates(k)
      /\ (flows[k].d.delivery.duration # {}
          /\ The(flows[k].d.delivery.duration) > 0)
         => BaseAtKeyTimes(k, JsOrNum(flows[k].d.delivery.start_time, 0),
                           The(flows[k].d.delivery.duration))

\* C11 witness: a particle positioned at the half-way time of a delivery of
\* positive duration, at the midpoint and at neither end.
C11_Witness ==
    \E k \in Positioned :
      LET pos == flows[k].pos
          dl == flows[k].d.delivery
      IN  /\ dl.start_time # {} /\ dl.duration # {} /\ The(dl.duration) > 0
          /\ 2 * (currentTime - The(dl.start_time)) = The(dl.duration)
          /\ AtMidpoint(pos.base, pos.from, pos.to)
          /\ ~AtPoint(pos.base, pos.from) /\ ~AtPoint(pos.base, pos.to)

\* C12: the particle of the delivery with index 0 on its edge has offset 0,
\* so it is drawn at its base position; for every index the offset is an
\* integer in {-1, 0, 1} fixed by index mod 3 and applied at a right angle to
\* the edge.
C12_FirstParticleOnTheLine ==
    \A k \in Positioned :
      LET pos == flows[k].pos
          i == flows[k].d.deliveryIndex
      IN  /\ i = 0 => pos.offsetAmount = 0
          /\ pos.offsetAmount \in {0 - 1, 0, 1}
          /\ \A j \in DOMAIN flows :
               (j \in Positioned /\ flows[j].d.deliveryIndex % 3 = i % 3)
               => flows[j].pos.offsetAmount = pos.offsetAmount
          /\ pos.perp[1] * (pos.to[1] - pos.from[1])
             + pos.perp[2] * (pos.to[2] - pos.from[2]) = 0

\* In the stages an operation started, every a comes before every b.
Before(a, b) ==
    \A i, j \in DOMAIN last.steps :
      (last.steps[i] = a /\ last.steps[j] = b) => i < j

\* C13 as stated: in an update the nodes and the edge lines are reconciled
\* first, then the particles, then hover and selection are re-resolved.
C13_NodesAndEdgesThenParticles ==
    last.op = "update"
    => (/\ Before("edges", "flows") /\ Before("nodes", "flows")
        /\ Before("labels", "flows")
        /\ Before("flows", "tooltip") /\ Before("flows", "panel"))

\* C13 as amended: in an update the stages start in the order edge lines,
\* particles, node groups, labels, tooltip, panel; the first three always
\* start, and none starts twice.
C13_EdgesParticlesThenNodes ==
    last.op = "update"
    => (/\ \A i \in 1..3 : i \in DOMAIN last.steps
        /\ last.steps[1] = "edges" /\ last.steps[2] = "flows"
        /\ last.steps[3] = "nodes"
        /\ Before("nodes", "labels") /\ Before("labels", "tooltip")
        /\ Before("labels", "panel") /\ Before("tooltip", "panel")
        /\ \A i, j \in DOMAIN last.steps :
             last.steps[i] = last.steps[j] => i = j)

\* C13 witness: an update that ran through all its stages, to the refresh of
\* the tooltip of a hovered node and of the panel of a selected node.
C13_Witness ==
    /\ last.op = "update" /\ ~last.threw
    /\ hoveredNode # Null /\ selectedNode # Null
    /\ last.steps = <<"edges", "flows", "nodes", "labels", "tooltip", "panel">>

\* Where the elements of the four layers are drawn.
DrawnPositions(groups, texts, lines, particles) ==
    [node |-> [k \in DOMAIN groups |-> groups[k].transform],
     label |-> [k \in DOMAIN texts |-> texts[k].xy],
     edge |-> [k \in DOMAIN lines |-> <<lines[k].p1, lines[k].p2>>],
     flow |-> [k \in DOMAIN particles |-> particles[k].pos]]

\* Where a map of the same size that has applied nothing but the current
\* snapshot draws its elements.
FreshPositions ==
    LET re == RenderEdges(edges, nodes, width, height, currentTime, <<>>, <<>>)
        rn == RenderNodes(nodes, Null, width, height, <<>>, <<>>)
    IN  DrawnPositions(rn.nodeGroups, rn.labels, re.edgeLines, re.flows)

\* C14: after an update every node, edge and particle is drawn where a map of
\* the same size draws it that was given the snapshot as its first; an update
\* that repeats the snapshot before it moves nothing.
C14_PositionsFromLatestSnapshot ==
    /\ [](last.op = "update"
          => DrawnPositions(nodeGroups, labels, edgeLines, flows)
             = FreshPositions)
    /\ [][last'.repeat
          => DrawnPositions(nodeGroups, labels, edgeLines, flows)'
             = DrawnPositions(nodeGroups, labels, edgeLines, flows)]_vars

\* The point an endpoint without a projection is placed at.
Anchor == <<0, 0>>

\* C15: no update or resize throws on a node outside the frame, and after it
\* every node of the node array is drawn, group and label; the ones outside
\* the frame at the anchor.
C15_UnprojectableNodeNeverThrows ==
    last.op \in {"update", "resize"}
    => (/\ ~last.threw
        /\ \A k \in DOMAIN nodes :
             /\ k \in DOMAIN nodeGroups /\ k \in DOMAIN labels
             /\ nodes[k].location = OutOfFrame
                => (nodeGroups[k].transform = Anchor /\ labels[k].xy = Anchor))

\* An endpoint id without a node in the node array.
Dangling(id) == id \notin DOMAIN nodes

\* C16: after an update every edge of the snapshot has its line, also an edge
\* with an endpoint id that no node has; such an endpoint is at the anchor,
\* where the endpoint of a node outside the frame is too; and an update whose
\* nodes are all inside the frame does not throw, whatever its edges.
C16_DanglingEdgeStillDrawn ==
    last.op = "update"
    => (/\ \A e \in edges :
             /\ EdgeKey(e) \in DOMAIN edgeLines
             /\ Dangling(e.from) => edgeLines[EdgeKey(e)].p1 = Anchor
             /\ Dangling(e.to) => edgeLines[EdgeKey(e)].p2 = Anchor
             /\ (~Dangling(e.from) /\ nodes[e.from].location = OutOfFrame)
                => edgeLines[EdgeKey(e)].p1 = Anchor
             /\ (~Dangling(e.to) /\ nodes[e.to].location = OutOfFrame)
                => edgeLines[EdgeKey(e)].p2 = Anchor
        /\ (\A k \in DOMAIN nodes : nodes[k].location # OutOfFrame)
           => ~last.threw)

\* C16 witness: a completed update with an edge from a node inside the frame
\* to an id no node has, its line drawn from the node to the anchor.
C16_Witness ==
    /\ last.op = "update" /\ ~last.threw
    /\ \E e \in edges :
         /\ ~Dangling(e.from) /\ Dangling(e.to)
         /\ EdgeKey(e) \in DOMAIN edgeLines
         /\ edgeLines[EdgeKey(e)].p1 # Anchor
         /\ edgeLines[EdgeKey(e)].p2 = Anchor

\* The node with this id is in the node array ns and the projection of the
\* surface of width w and height h maps its coordinates to a point.
Projects(ns, id, w, h) ==
    id \in DOMAIN ns /\ Projection(ns[id].location, w, h) # <<>>

\* C17: in a pass where an endpoint of a particle's edge does not project, the
\* particle keeps its element and the position it had; in a pass where both
\* endpoints project, the particle is positioned between their projections at
\* the progress of its delivery.
C17_SkippedUntilProjectable ==
    [][last'.op \in {"update", "resize"}
       => (/\ \A x \in ListedDeliveries(edges', TRUE) :
                x.delivery.order_id \in DOMAIN flows'
           /\ \A k \in DOMAIN flows' :
                LET e == flows'[k].d.edge
                    dl == flows'[k].d.delivery
                IN  IF /\ Projects(nodes', e.from, width', height')
                       /\ Projects(nodes', e.to, width', height')
                    THEN /\ flows'[k].pos # Null
                         /\ flows'[k].pos.from
                            = Projection(nodes'[e.from].location, width', height')
                         /\ flows'[k].pos.to
                            = Projection(nodes'[e.to].location, width', height')
                         /\ flows'[k].pos.progress
                            = Progress(currentTime', dl.start_time, dl.duration)
                    ELSE k \in DOMAIN flows
                         => (/\ flows'[k].el = flows[k].el
                             /\ flows'[k].pos = flows[k].pos))]_vars

\* The order ids listed on the delivery edges with active orders.
ActiveOrders(es) == {x.delivery.order_id : x \in ListedDeliveries(es, TRUE)}

\* The particle of order o is the same element before and after the step.
SameParticle(o) ==
    /\ o \in DOMAIN flows /\ o \in DOMAIN flows'
    /\ flows'[o].el = flows[o].el

\* C18 as stated: an order listed in the snapshot before an update and in the
\* snapshot of the update keeps its particle, whatever its index and edge.
C18_SameParticleWhileListed ==
    [][last'.op = "update"
       => \A o \in DeliveryOrders(edges) \cap DeliveryOrders(edges') :
            SameParticle(o)]_vars

\* C18 as amended: an order listed, in both snapshots, on a delivery edge
\* with active orders keeps its particle, whatever its index and edge; the
\* update creates and removes no particle for it, and the index only sets
\* the offset.
C18_SameParticleWhileActive ==
    [][last'.op = "update"
       => \A o \in ActiveOrders(edges) \cap ActiveOrders(edges') :
            /\ SameParticle(o)
            /\ <<"flow", o>> \notin last'.removed
            /\ flows'[o].pos # Null
               => flows'[o].pos.offsetAmount
                  = (flows'[o].d.deliveryIndex % 3) - 1]_vars

\* C18 witness: an update kept the particle of an order that now has another
\* index or another edge.
C18_Witness ==
    /\ last.op = "update"
    /\ \E o \in last.rebound : o \in DOMAIN flows /\ flows[o].pos # Null

\* The least and the greatest radius of a type, and its default share.
TypeRange(type) ==
    IF type = "manufacturing_center" THEN <<4, 12>> ELSE <<3, 9>>

DefaultShare(type) ==
    IF type = "manufacturing_center" THEN <<33, 100>> ELSE <<125, 1000>>

\* min + share * (max - min), for a rational share.
RadiusAt(type, share) ==
    <<TypeRange(type)[1] * share[2]
      + share[1] * (TypeRange(type)[2] - TypeRange(type)[1]), share[2]>>

\* The radius the last pass gave the circle of node k.
DrawnRadius(k) == nodeGroups[k].style.r

InTypeRange(k) ==
    /\ DrawnRadius(k)[2] > 0
    /\ RLeq(<<TypeRange(nodes[k].type)[1], 1>>, DrawnRadius(k))
    /\ RLeq(DrawnRadius(k), <<TypeRange(nodes[k].type)[2], 1>>)

\* A pass that got to the styling of the circles.
Styled == last.op = "update" /\ ~last.threw

WithinRange(r, type) ==
    RLeq(<<TypeRange(type)[1], 1>>, r) /\ RLeq(r, <<TypeRange(type)[2], 1>>)

NodeTypes == {"manufacturing_center", "distributor"}

\* C21: the radius ranges of the two types are disjoint: the radius a pass
\* gives a node of one type never lies in the range of the other type (each
\* point of which is the radius of some node of that type at some share).
C21_RadiusRangesDisjoint ==
    Styled =>
      \A k \in DOMAIN nodes :
        \A type \in NodeTypes \ {nodes[k].type} :
          ~WithinRange(DrawnRadius(k), type)

\* The drawn node k carries the selection stroke.
Highlighted(k) ==
    nodeGroups[k].style # Null /\ nodeGroups[k].style.stroke = "#fff"

\* C22: after every completed update, node click, background click and
\* resize, a drawn node carries the selection stroke (white, 3 wide) exactly
\* when its id is the selected id, and no stroke otherwise; so at most one
\* node is highlighted, and none when nothing is selected.
C22_StrokeOnSelectedOnly ==
    (last.op \in {"update", "click", "background", "resize"} /\ ~last.threw)
    => (/\ \A k \in DOMAIN nodeGroups :
             /\ nodeGroups[k].style # Null
             /\ Highlighted(k) <=> (selectedNode # Null /\ k = selectedNode.id)
             /\ nodeGroups[k].style.stroke_width
                = (IF Highlighted(k) THEN 3 ELSE 0)
             /\ ~Highlighted(k) => nodeGroups[k].style.stroke = "none"
        /\ Cardinality({k \in DOMAIN nodeGroups : Highlighted(k)}) <= 1
        /\ selectedNode = Null
           => {k \in DOMAIN nodeGroups : Highlighted(k)} = {})

\* C22 witness: a completed operation with two nodes drawn, the selected one
\* highlighted and the other one not.
C22_Witness ==
    /\ last.op \in {"update", "resize"} /\ ~last.threw
    /\ selectedNode # Null
    /\ \E j, k \in DOMAIN nodeGroups :
         /\ j # k /\ k = selectedNode.id
         /\ Highlighted(k) /\ ~Highlighted(j)

\* C25: a click on a node leaves that node selected; a click on the
\* background leaves nothing selected and the details panel hidden.
C25_ClickSelectsBackgroundClears ==
    [][/\ last'.op = "click"
          => (/\ selectedNode' # Null
              /\ \E k \in DOMAIN nodeGroups :
                   nodeGroups[k].listeners /\ selectedNode' = nodeGroups[k].d)
       /\ last'.op = "background"
          => (selectedNode' = Null /\ ~panel'.visible)]_vars

\* The color, width and opacity a line is drawn with.
Encoding(line) == <<line.stroke, line.stroke_width, line.stroke_opacity>>

\* The keys of the lines of the categories in types.
LinesOf(lines, types) == {k \in DOMAIN lines : lines[k].d.edge_type \in types}

\* C23: a structural edge is drawn gray, 1 wide and at opacity 0.2 whatever
\* its active_orders, so an update that changes the active_orders of a
\* structural edge changes none of the three.
C23_StructuralEncodingFixed ==
    /\ [](\A k \in LinesOf(edgeLines, {"structural"}) :
            Encoding(edgeLines[k]) = <<"rgba(100, 100, 100, 0.2)", 1, <<2, 10>>>>)
    /\ [][\A k \in LinesOf(edgeLines, {"structural"})
               \cap LinesOf(edgeLines', {"structural"}) :
            Encoding(edgeLines'[k]) = Encoding(edgeLines[k])]_vars

\* The color of a category.
CategoryColor(type) ==
    IF type = "order_placement" THEN "rgba(59, 130, 246, 0.7)"
    ELSE "rgba(239, 68, 68, 0.7)"

\* C24: a pending-signal or in-transit edge is drawn in the color of its
\* category, and 2 wide at opacity 0.6 when its active_orders is above zero,
\* 1 wide at opacity 0.2 otherwise, whatever the size of the count.
C24_TwoLevelEncoding ==
    \A k \in LinesOf(edgeLines, {"order_placement", "delivery"}) :
      Encoding(edgeLines[k])
      = <<CategoryColor(edgeLines[k].d.edge_type),
          IF edgeLines[k].d.active_orders > 0 THEN 2 ELSE 1,
          IF edgeLines[k].d.active_orders > 0 THEN <<6, 10>> ELSE <<2, 10>>>>

\* C24 witness: an in-transit edge with a count above one, drawn with the
\* high pair, beside a pending-signal edge with count zero, drawn with the
\* low pair.
C24_Witness ==
    /\ last.op = "update"
    /\ \E j, k \in DOMAIN edgeLines :
         /\ edgeLines[j].d.edge_type = "delivery"
         /\ edgeLines[j].d.active_orders > 1
         /\ edgeLines[j].stroke_width = 2
         /\ edgeLines[j].stroke_opacity = <<6, 10>>
         /\ edgeLines[k].d.edge_type = "order_placement"
         /\ edgeLines[k].d.active_orders = 0
         /\ edgeLines[k].stroke_width = 1
         /\ edgeLines[k].stroke_opacity = <<2, 10>>

\* C26: pointer-enter on a node leaves that node hovered and the tooltip
\* showing it; pointer-leave leaves no node hovered and no tooltip; and at
\* every moment there is a tooltip exactly when a node is hovered, showing
\* the node of that id.
C26_TooltipIffHovered ==
    /\ []((tooltip # Null <=> hoveredNode # Null)
          /\ (tooltip # Null => tooltip.content.id = hoveredNode.id))
    /\ [][/\ last'.op = "mouseenter"
             => (/\ hoveredNode' # Null
                 /\ tooltip' = [content |-> hoveredNode']
                 /\ \E k \in DOMAIN nodeGroups :
                      hoveredNode' = nodeGroups[k].d)
          /\ last'.op = "mouseleave"
             => (hoveredNode' = Null /\ tooltip' = Null)]_vars

\* C26 witness: the pointer entered the second of two drawn nodes, which is
\* hovered and shown in the tooltip.
C26_Witness ==
    /\ last.op = "mouseenter"
    /\ Cardinality(DOMAIN nodeGroups) > 1
    /\ hoveredNode # Null /\ hoveredNode.id = 2
    /\ tooltip = [content |-> hoveredNode]

\* What a snapshot says of a field, and the empty value when it says nothing.
Said(s, f, empty) == IF f \in DOMAIN s THEN s[f] ELSE empty

\* C27: after an update the world state is what the snapshot of that update
\* says and nothing else: its nodes and edges (none when the field is
\* missing), its time (0 when missing) and its running flag (false when
\* missing), whatever the world state was before.
C27_WorldFromSnapshotAlone ==
    [][last'.op = "update"
       => /\ nodes' = Said(last'.input, "nodes", <<>>)
          /\ edges' = Said(last'.input, "edges", {})
          /\ currentTime' = Said(last'.input, "time", 0)
          /\ isRunning' = Said(last'.input, "running", FALSE)]_vars

\* C27 witness: an update from a snapshot without any field removed drawn
\* elements and left an empty world at time 0, not running.
C27_Witness ==
    /\ last.op = "update"
    /\ DOMAIN last.input = {}
    /\ last.removed # {}
    /\ nodes = <<>> /\ edges = {} /\ currentTime = 0 /\ ~isRunning

\* C28: every message that parses causes an update pass with its snapshot,
\* at its arrival, and the world state after it is that snapshot's, a
\* snapshot of a lower time than the current one included; only a message
\* that does not parse is ignored.
C28_EveryParsableMessageUpdates ==
    [][last'.input # Unparsable
       => /\ last'.op = "update"
          /\ nodes' = Said(last'.input, "nodes", <<>>)
          /\ edges' = Said(last'.input, "edges", {})
          /\ currentTime' = Said(last'.input, "time", 0)]_vars

\* C29: a pan or zoom event changes the view transform and nothing else: the
\* world state, the hovered and the selected node, the tooltip and the panel,
\* the size the projection is built from, and every drawn element with its
\* attributes stay as they were, and the event starts no rendering stage and
\* creates and removes no element.
C29_ZoomChangesViewOnly ==
    [][last'.op = "zoom"
       => /\ UNCHANGED <<worldVars, uiVars, sizeVars, domVars>>
          /\ last'.steps = <<>>
          /\ last'.created = {} /\ last'.removed = {}]_vars

\* C29 witness: a zoom event left a view other than the identity while two
\* nodes, an edge and a particle are drawn, one node hovered and one selected.
C29_Witness ==
    /\ last.op = "zoom"
    /\ view # Identity
    /\ Cardinality(DOMAIN nodeGroups) = 2
    /\ DOMAIN edgeLines # {} /\ DOMAIN flows # {}
    /\ hoveredNode # Null /\ selectedNode # Null

\* The layers an operation created elements in or removed elements from.
TouchedLayers(r) == {e[1] : e \in r.created \cup r.removed}

\* The stages an operation started.
StagesOf(r) == {r.steps[i] : i \in DOMAIN r.steps}

\* C30: pointer enter, pointer leave, a click on a node and a click on the
\* background leave the world state and every line and particle, with its
\* position, as they were; a click starts only the stages of the node layer
\* (groups and labels) and the panel, and touches no element outside that
\* layer; enter and leave start only the tooltip stage, and leave the node
\* layer, the selection and the panel as they were.
C30_PointerEventsKeepWorldAndEdges ==
    [][/\ last'.op \in {"mouseenter", "mouseleave", "click", "background"}
          => /\ UNCHANGED <<worldVars, sizeVars, edgeLines, flows>>
             /\ TouchedLayers(last') \cap {"edge", "flow"} = {}
             /\ StagesOf(last') \cap {"edges", "flows"} = {}
       /\ last'.op \in {"click", "background"}
          => /\ StagesOf(last') \subseteq {"nodes", "labels", "panel"}
             /\ TouchedLayers(last') \subseteq {"node", "label"}
             /\ UNCHANGED <<hoveredNode, tooltip>>
       /\ last'.op \in {"mouseenter", "mouseleave"}
          => /\ StagesOf(last') = {"tooltip"}
             /\ TouchedLayers(last') = {}
             /\ UNCHANGED <<nodeGroups, labels, selectedNode, panel>>]_vars

\* C30 witness: a click on a node selected it while lines and a particle are
\* drawn and another node is hovered.
C30_Witness ==
    /\ last.op = "click"
    /\ selectedNode # Null
    /\ hoveredNode # Null /\ hoveredNode.id # selectedNode.id
    /\ DOMAIN edgeLines # {} /\ DOMAIN flows # {}

\* C31: a resize leaves the world state, the hovered and the selected node,
\* the tooltip, the panel and the view transform as they were, creates and
\* removes no element, so that every drawn node, label, line and particle is
\* the element it was, and leaves every line between the positions of its
\* end nodes under the new size; and an operation other than a resize leaves
\* the size the projection is centred by as it was.
C31_ResizeChangesSizeOnly ==
    [][/\ last'.op = "resize"
          => /\ UNCHANGED <<worldVars, uiVars, view>>
             /\ last'.created = {} /\ last'.removed = {}
             /\ ElementIds' = ElementIds
             /\ \A k \in DOMAIN edgeLines' :
                  /\ edgeLines'[k].p1
                     = GetNodeProjection(nodes, edgeLines'[k].d.from,
                                         width', height')
                  /\ edgeLines'[k].p2
                     = GetNodeProjection(nodes, edgeLines'[k].d.to,
                                         width', height')
       /\ last'.op # "resize" => UNCHANGED sizeVars]_vars

\* C31 witness: a resize changed the size while two nodes, their lines and a
\* particle are drawn, one node hovered and one selected.
C31_Witness ==
    /\ last.op = "resize"
    /\ <<width, height>> # InitSize
    /\ Cardinality(DOMAIN nodeGroups) = 2
    /\ DOMAIN edgeLines # {} /\ DOMAIN flows # {}
    /\ hoveredNode # Null /\ selectedNode # Null

\* C32: resize is called only by the timeout of a debounce, after the events
\* that armed it: never in the step of a resize-triggering event, and never
\* while the sidebar handle is being dragged.
C32_ResizeOnlyDebounced ==
    [][last'.op = "resize"
       => /\ sizer.resizeTimeout /\ ~sizer'.resizeTimeout
          /\ sizer'.container = sizer.container
          /\ ~sizer.isResizing]_vars

\* The load has ended in failure: not pending, and no data stored.
LoadFailed == ~overlay.loading /\ overlay.usStates = Null

\* C33: a load that fails leaves no data and no path and is not started
\* again, so that the overlay stays absent from then on; a load that succeeds
\* draws one path for each feature, and no path is drawn after that; and an
\* update, a click or a resize has the effect on the map it has without the
\* overlay (the world state of the snapshot, the selection of the click, the
\* size of the resize, each completing), whether the load is pending, has
\* failed or has succeeded, and leaves the load and the number of paths as
\* they were.
C33_OverlayLoadedOnceOrNever ==
    /\ [](LoadFailed => overlay.paths = <<>>)
    /\ [](DOMAIN overlay.paths \in {{}, Features})
    /\ [][/\ last'.op = "loadfailed" => LoadFailed'
          /\ ~overlay.loading => ~overlay'.loading
          /\ LoadFailed => LoadFailed'
          /\ overlay.paths # <<>> => DOMAIN overlay'.paths = DOMAIN overlay.paths
          /\ last'.op = "loaded"
             => UNCHANGED <<worldVars, sizeVars, uiVars, domVars>>
          /\ last'.op \in {"update", "click", "resize"}
             => /\ overlay'.loading = overlay.loading
                /\ overlay'.usStates = overlay.usStates
                /\ DOMAIN overlay'.paths = DOMAIN overlay.paths
                /\ ~last'.threw
          /\ last'.op = "update"
             => DOMAIN nodeGroups' = DOMAIN nodes' /\ currentTime' = 1
          /\ last'.op = "click" => selectedNode' # Null /\ panel'.visible
          /\ last'.op = "resize"
             => \A i \in DOMAIN overlay'.paths :
                  overlay'.paths[i].d = <<width', height'>>]_vars

\* C33 witness: an update drew two nodes after the load had failed.
C33_Witness ==
    /\ LoadFailed
    /\ last.op = "update"
    /\ Cardinality(DOMAIN nodeGroups) = 2

\* The other case of C33: a resize re-attributed the paths that a successful
\* load drew.
OverlayDrawnAndResized ==
    /\ overlay.usStates # Null
    /\ last.op = "resize"
    /\ DOMAIN overlay.paths = Features
    /\ <<width, height>> # InitSize

\* What an identifier-based store keeps of a reference: the id and no more.
IdOnly(ref) == IF ref = Null THEN Null ELSE [id |-> ref.id]

\* The node an identifier-based store resolves a reference to in ns.
Resolved(ns, ref) == IF ref = Null THEN Null ELSE FindNode(ns, ref.id)

\* C34: after every update and every pointer event the highlight, the tooltip
\* and the panel are what they would be had the hover and the selection been
\* stored as the id alone: the drawn nodes are those rendered from the id of
\* the selection, and after an update the tooltip and the panel show the node
\* the current snapshot holds under the stored id (and stay as they were when
\* it holds none).
C34_HoverAndSelectionByIdOnly ==
    [][/\ last'.op \in {"update", "click", "background"}
          => nodeGroups'
             = RenderNodes(nodes', IdOnly(selectedNode'), width, height,
                           nodeGroups, labels).nodeGroups
       /\ last'.op = "update"
          => /\ tooltip' = IF Resolved(nodes', IdOnly(hoveredNode)) # Null
                           THEN UpdateTooltip(tooltip,
                                  Resolved(nodes', IdOnly(hoveredNode)))
                           ELSE tooltip
             /\ panel' = IF Resolved(nodes', IdOnly(selectedNode)) # Null
                         THEN UpdateDetailsPanel(
                                  Resolved(nodes', IdOnly(selectedNode)))
                         ELSE panel
             /\ UNCHANGED <<hoveredNode, selectedNode>>]_vars

\* C34 witness: an update left the selected node highlighted and shown in the
\* panel, and the hovered node shown in the tooltip, from objects of the
\* snapshot that differ from the stored ones.
C34_Witness ==
    /\ last.op = "update"
    /\ selectedNode # Null /\ hoveredNode # Null
    /\ selectedNode.id \in DOMAIN nodes
    /\ hoveredNode.id \in DOMAIN nodes
    /\ nodes[selectedNode.id] # selectedNode
    /\ nodes[hoveredNode.id] # hoveredNode
    /\ Highlighted(selectedNode.id)
    /\ panel.content = nodes[selectedNode.id]
    /\ tooltip = [content |-> nodes[hoveredNode.id]]

\* C35: reconnectAttempts stays between 0 and maxReconnectAttempts, grows by
\* exactly one with each reconnect that a close schedules and not otherwise,
\* is 0 after every open, and at most one reconnect timeout is pending at
\* any time.
C35_AttemptsBoundedOneTimer ==
    /\ [](api.reconnectAttempts \in 0..maxReconnectAttempts)
    /\ [](api.timers <= 1)
    /\ [][/\ api'.timers > api.timers
             => /\ last'.op = "close"
                /\ api'.timers = api.timers + 1
                /\ api'.reconnectAttempts = api.reconnectAttempts + 1
          /\ api'.reconnectAttempts > api.reconnectAttempts
             => /\ api'.reconnectAttempts = api.reconnectAttempts + 1
                /\ api'.timers = api.timers + 1
          /\ last'.op = "open" => api'.reconnectAttempts = 0]_vars

\* The part of C35 about the count alone, which the client keeps under every
\* use.
AttemptsBounded == api.reconnectAttempts \in 0..maxReconnectAttempts

\* The client has given up: no socket, no timeout pending, the count at its
\* maximum.
GaveUp ==
    /\ Alive = {} /\ api.timers = 0
    /\ api.reconnectAttempts = maxReconnectAttempts

\* C36: as the page uses the client, at most the one connect of the page and
\* maxReconnectAttempts reconnects are made without a socket opening, and
\* at most maxReconnectAttempts since a socket last opened; a client left
\* without socket and timeout has made exactly that many and does nothing
\* more; and an open puts the count back to 0, so that the close after it
\* schedules a reconnect.
C36_GivesUpAfterTenReconnects ==
    /\ [](api.connects <= maxReconnectAttempts + (IF api.opened THEN 0 ELSE 1))
    /\ [](api # NewClient /\ Alive = {} /\ api.timers = 0
          => /\ GaveUp
             /\ api.connects
                = maxReconnectAttempts + (IF api.opened THEN 0 ELSE 1))
    /\ [][/\ ~GaveUp
          /\ last'.op = "open"
             => api'.reconnectAttempts = 0 /\ api'.connects = 0
          /\ last'.op = "close" /\ api.reconnectAttempts = 0
             => api'.timers = api.timers + 1]_vars

\* C36 witness: no socket ever opened, and the client gave up after the
\* connect of the page and maxReconnectAttempts reconnects.
C36_Witness ==
    /\ GaveUp
    /\ ~api.opened
    /\ api.connects = maxReconnectAttempts + 1

\* The other case of C36: a socket opened, and the client gave up
\* maxReconnectAttempts reconnects after it closed.
GaveUpAfterOpen ==
    GaveUp /\ api.opened /\ api.connects = maxReconnectAttempts

\* C37: the close event of a socket that disconnect() closed schedules no
\* reconnect, and while the client holds no socket only a call of connect()
\* creates one.
C37_DisconnectedStaysDisconnected ==
    [][/\ \A i \in DOMAIN api.sockets :
            api.sockets[i] = "closing" /\ api'.sockets[i] = "none"
            => api'.timers = api.timers
       /\ api.ws = 0 /\ last'.op # "connect"
          => api'.ws = 0 /\ api'.connects = api.connects]_vars

\* C38: a message that does not parse causes no update pass and leaves the
\* world state, the hover, the selection, the drawn elements and the client
\* (its sockets, its count and its timeouts) as they were; and a message
\* that parses is applied whatever came before it, a message that did not
\* parse included.
C38_UnparsableMessageDropped ==
    [][/\ last'.input = Unparsable
          => /\ last'.op = "ignored"
             /\ UNCHANGED <<worldVars, sizeVars, uiVars, domVars, api>>
       /\ last'.input \in ViewSnapshots
          => /\ last'.op = "update"
             /\ nodes' = last'.input.nodes
             /\ edges' = last'.input.edges
             /\ UNCHANGED api]_vars

\* C38 witness: a message that did not parse was ignored while a socket is
\* open and nodes are drawn.
C38_Witness ==
    /\ last.op = "ignored"
    /\ last.input = Unparsable
    /\ \E i \in DOMAIN api.sockets : api.sockets[i] = "open"
    /\ DOMAIN nodeGroups # {}

\* The messages of the chat that are not system messages, in order.
Exchange == SelectSeq(chat.messages, LAMBDA m : m.role # "system")

\* C39: the controls are disabled exactly while a request is pending; a send
\* of a blank value changes nothing; a send of any other value appends the
\* user message with the trimmed value and disables the controls; a request
\* that settles appends one assistant reply (with the feedback of an action
\* after it) or one error message and enables the controls; so that, system
\* messages apart, the messages are user messages each followed by its one
\* reply or error, the last user message still alone while its request is
\* pending.
C39_SendDisablesUntilSettled ==
    /\ [](chat.disabled <=> chat.request # Null)
    /\ [](\A i \in DOMAIN Exchange :
            IF i % 2 = 1 THEN Exchange[i].role = "user"
            ELSE Exchange[i].role \in {"assistant", "error"})
    /\ []((Len(Exchange) % 2 = 1) <=> chat.request # Null)
    /\ [][/\ last'.op = "blank" => chat' = chat
          /\ last'.op = "send"
             => /\ ~chat.disabled /\ chat'.disabled
                /\ Len(chat'.messages) = Len(chat.messages) + 1
                /\ SubSeq(chat'.messages, 1, Len(chat.messages))
                   = chat.messages
                /\ chat'.messages[Len(chat'.messages)].role = "user"
                /\ chat'.messages[Len(chat'.messages)].content # <<>>
                /\ chat'.request.message
                   = chat'.messages[Len(chat'.messages)].content
          /\ last'.op = "settle"
             => /\ chat.disabled /\ ~chat'.disabled
                /\ SubSeq(chat'.messages, 1, Len(chat.messages))
                   = chat.messages
                /\ Cardinality({i \in DOMAIN chat'.messages :
                                  /\ i > Len(chat.messages)
                                  /\ chat'.messages[i].role
                                     \in {"assistant", "error"}}) = 1
                /\ chat'.messages[Len(chat.messages) + 1].role
                   \in {"assistant", "error"}]_vars

\* C39 witness: a request settled with an error message after the user
\* message it was sent for, and the controls are enabled again.
C39_Witness ==
    /\ last.op = "settle"
    /\ Len(chat.messages) >= 2
    /\ chat.messages[Len(chat.messages)].role = "error"
    /\ chat.messages[Len(chat.messages) - 1].role = "user"
    /\ ~chat.disabled

====
